---- MODULE Spec2Model ----
(***************************************************************************)
(* Live transcription protocol of the meeting manager backend:             *)
(* GoogleSpeechService and DeepgramService (provider adapters),            *)
(* TranscriptionGateway (session registry and live aggregator),            *)
(* TranscriptionService / SpeakerEnrollmentService (stores) and the name   *)
(* extractor.                                                              *)
(*                                                                         *)
(* JavaScript runs one callback at a time: every action below is one       *)
(* callback or one handler segment between two awaits.                     *)
(***************************************************************************)
EXTENDS Integers, Sequences, FiniteSets, TLC

\* ---------------------------------------------------------------- bounds
MaxSessions == 1      \* provider sessions (uuids) created in one run
MaxStreams == 2       \* Google recognize streams opened in one run
MaxTicks == 4         \* clock ticks in one run
MaxEvents == 2        \* provider result payloads delivered in one run
MaxErrors == 1        \* provider error events delivered in one run
TickMs == 97000       \* milliseconds of one clock tick
MaxRequests == 2      \* enrollSpeaker / removeSpeakerMapping requests in one run
MaxSegments == 3      \* segments a meeting holds when the reconciler starts
MaxSpans == 2         \* diarization spans of one reconciliation
MaxReads == 1         \* getTranscript requests in one run
MaxRuns == 2          \* processAudioFile calls for one meeting
MaxTokens == 3        \* words of a transcript given to extractName
MaxNameLen == 3       \* characters of the short names given to isValidName

\* ------------------------------------------------------ program constants
streamingLimit == 290000
NameLimit == 50       \* isValidName: name.length > 50
GoogleStreamLimit == 300000

Conns == {"c1"}
Meetings == {"m1"}
\* the uuids of provider sessions; the last one is used only where a connection
\* starts a second session
Sids == 1 .. MaxSessions + 1
StreamIds == 1 .. MaxStreams
Tags == {1, 2}

VARIABLES
  deepgramAvailable,   \* DeepgramService.isAvailable()
  googleAvailable,     \* GoogleSpeechService.isAvailable()
  now,                 \* Date.now(), in ticks
  nextSid,             \* next uuid handed out by uuidv4()
  googleSessions,      \* GoogleSpeechService.sessions and the session objects
  streams,             \* the recognize streams of the Google client
  restartTimers,       \* pending setTimeout callbacks of restartStream
  deepgramSessions,    \* DeepgramService.sessions and the session objects
  sessionObjs,         \* the ClientSession objects, by speechSessionId
  clientSessions,      \* TranscriptionGateway.clientSessions
  connected,           \* sockets that are still connected
  pendingStart,        \* startSession calls awaiting getSpeakerMappings
  pendingStop,         \* stop handlers awaiting the stores
  clientEvents,        \* events emitted to each socket
  uncaught,            \* an exception escaped a callback
  numErrors,           \* provider error events delivered so far
  lastError,           \* the last provider error event and how it was handled
  lastWrite,           \* the last writeAudio call and its result
  speakerMappingStore, \* rows of speaker_mappings
  nextMapId,           \* next row id handed out by uuidv4()
  segments,            \* rows of transcript_segments, in insertion order
  pendingSaves,        \* saveSegment calls in flight
  pendingEnroll,       \* saveSpeakerMapping calls in flight, with their continuation
  numEvents,           \* provider result payloads delivered so far
  handled,             \* the events handleTranscriptResult was called with
  pendingManual,       \* enrollSpeaker / removeSpeakerMapping handlers awaiting the store
  numRequests,         \* enrollSpeaker / removeSpeakerMapping requests received so far
  lastRequest,         \* the last enrollSpeaker request and what its handler did first
  lastSave,            \* the last saveSpeakerMapping call of enrollSpeaker that completed
  recon,               \* assignSpeakersAndMergeSegments: its locals and its position
  lastRead,            \* the last getFinalSegmentsByMeeting result a reader received
  job,                 \* processAudioFile: its locals and its position
  meetingStatus,       \* Meeting.status of the meeting that is post-processed
  extraction,          \* a transcript and what extractName makes of it
  validation           \* a name and what isValidName says of it

vars == << deepgramAvailable, googleAvailable, now, nextSid, googleSessions,
           streams, restartTimers, deepgramSessions, sessionObjs,
           clientSessions, connected, pendingStart, pendingStop,
           clientEvents, uncaught, numErrors, lastError, lastWrite,
           speakerMappingStore, nextMapId, segments, pendingSaves,
           pendingEnroll, numEvents, handled, pendingManual, numRequests,
           lastRequest, lastSave, recon, lastRead, job, meetingStatus,
           extraction, validation >>

\* ------------------------------------------------------------ data shapes
NoName == << >>

NoStream ==
  [session |-> 0, writableEnded |-> FALSE, destroyed |-> FALSE, finished |-> FALSE]

NoGoogleSession ==
  [created |-> FALSE, registered |-> FALSE, meetingId |-> "", recognizeStream |-> 0,
   isActive |-> FALSE, restartCount |-> 0, audioInputStreamTimestamp |-> 0,
   listeners |-> FALSE]

NoDeepgramSession ==
  [created |-> FALSE, registered |-> FALSE, meetingId |-> "", connection |-> "none",
   finishCalled |-> FALSE, isActive |-> FALSE, listeners |-> FALSE]

NoClientSession ==
  [exists |-> FALSE, socketId |-> "", meetingId |-> "", isStreaming |-> FALSE,
   mode |-> "", speakerMappings |-> [t \in Tags |-> NoName], provider |-> ""]

\* What is recorded of one writeAudio call: the session as the call found it
\* (known .. overLimit), what the stream's write did (outcome), and the result.
NoWrite ==
  [called |-> FALSE, provider |-> "", sid |-> 0, known |-> FALSE, hadStream |-> FALSE,
   wasActive |-> FALSE, unwritable |-> FALSE, streamOpen |-> FALSE,
   restarting |-> FALSE, restartCount |-> 0, destroyed |-> FALSE,
   overLimit |-> FALSE, outcome |-> "", ret |-> "none", wrote |-> FALSE, stream |-> 0]

\* What is recorded of one provider error event and of how it was handled.
NoError ==
  [n |-> 0, provider |-> "", sid |-> 0, known |-> FALSE, timeout |-> FALSE,
   heard |-> FALSE, forwarded |-> FALSE, restarted |-> FALSE]

\* TranscriptResult (of a word, the text and the confidence are left out)
NoResult ==
  [transcript |-> << >>, confidence |-> 0, isFinal |-> FALSE, speakerTag |-> 0,
   startTime |-> 0, endTime |-> 0, words |-> << >>]

\* What is recorded of one enrollSpeaker request: its arguments and what the
\* handler did before its first await ("required", "invalid" or "saving").
NoRequest ==
  [n |-> 0, conn |-> "", meetingId |-> "", speakerTag |-> 0, name |-> << >>,
   outcome |-> ""]

\* What is recorded of one completed saveSpeakerMapping call of enrollSpeaker:
\* whether it resolved (ok), whether another call for the same key was in flight
\* when it completed, and whether the store then held its name.
NoSave ==
  [n |-> 0, request |-> 0, ok |-> FALSE, concurrent |-> FALSE, stored |-> FALSE,
   name |-> << >>]

\* The locals of assignSpeakersAndMergeSegments and of its caller: existingSegments
\* (pre), pyannoteSpeakers (spans), segmentsWithSpeakers (tagged), mergedSegments
\* with the ids their rows get (merged), and the number of rows inserted so far.
NoRecon ==
  [phase |-> "idle", meetingId |-> "", pre |-> << >>, spans |-> << >>,
   tagged |-> << >>, merged |-> << >>, inserted |-> 0]

\* What is recorded of one getFinalSegmentsByMeeting result.
NoRead == [n |-> 0, rows |-> << >>, phase |-> ""]

\* One processAudioFile call: where it stands (phase), which branch it took
\* (path), the rows of the meeting when it started (before) and when the
\* summarization started (atSummary), diarizedSegments (batch), the merged
\* segments of updateTranscriptSegments (merged) and how many of them are
\* inserted, the status it is about to write (target), what failed and how the
\* summarization ended. run counts the calls and rewrites the calls in which
\* the reconciliation replaced the rows; diarizationServiceUrl is the
\* configuration (TRUE: set).
NoJob ==
  [phase |-> "idle", meetingId |-> "", path |-> "", before |-> << >>,
   atSummary |-> << >>,
   batch |-> << >>, merged |-> << >>, inserted |-> 0, target |-> "",
   failure |-> "", summary |-> "", run |-> 0, rewrites |-> 0,
   diarizationServiceUrl |-> TRUE]

\* What is recorded of one extractName call: the transcript, whether the call has
\* returned, and what it returned.
NoExtraction ==
  [input |-> << >>, returned |-> FALSE,
   result |-> [name |-> << >>, confidence |-> "", method |-> ""],
   debug |-> [spelledName |-> << >>, natoName |-> << >>, phoneticName |-> << >>]]

\* What is recorded of one isValidName call.
NoValidation == [name |-> << >>, returned |-> FALSE, result |-> FALSE]

\* ------------------------------------------------------ name-extractor.ts
\* A text is a sequence of one-character strings.
LowerSeq ==
  << "a", "b", "c", "d", "e", "f", "g", "h", "i", "j", "k", "l", "m",
     "n", "o", "p", "q", "r", "s", "t", "u", "v", "w", "x", "y", "z" >>

UpperSeq ==
  << "A", "B", "C", "D", "E", "F", "G", "H", "I", "J", "K", "L", "M",
     "N", "O", "P", "Q", "R", "S", "T", "U", "V", "W", "X", "Y", "Z" >>

LowerLetters == {LowerSeq[i] : i \in DOMAIN LowerSeq}
UpperLetters == {UpperSeq[i] : i \in DOMAIN UpperSeq}
DigitChars == {"0", "1", "2", "3", "4", "5", "6", "7", "8", "9"}

IsLetter(c) == c \in LowerLetters \cup UpperLetters      \* [a-zA-Z]
\* characters of the class \s that a text of the model can hold: the space, the
\* tab and the line feed
Whitespace == {" ", "\t", "\n"}

IsSpace(c) == c \in Whitespace                            \* \s
IsWordChar(c) == IsLetter(c) \/ c \in DigitChars \/ c = "_"   \* \w

toLowerChar(c) ==
  IF c \in UpperLetters THEN LowerSeq[CHOOSE i \in DOMAIN UpperSeq : UpperSeq[i] = c] ELSE c

toUpperChar(c) ==
  IF c \in LowerLetters THEN UpperSeq[CHOOSE i \in DOMAIN LowerSeq : LowerSeq[i] = c] ELSE c

RECURSIVE toLowerCase(_)
toLowerCase(t) == IF t = << >> THEN << >> ELSE << toLowerChar(Head(t)) >> \o toLowerCase(Tail(t))

RECURSIVE toUpperCase(_)
toUpperCase(t) == IF t = << >> THEN << >> ELSE << toUpperChar(Head(t)) >> \o toUpperCase(Tail(t))

\* the text as one string, to look it up in the tables
RECURSIVE Str(_)
Str(t) == IF t = << >> THEN "" ELSE Head(t) \o Str(Tail(t))

RECURSIVE trimStart(_)
trimStart(t) == IF t # << >> /\ IsSpace(Head(t)) THEN trimStart(Tail(t)) ELSE t

RECURSIVE trimEnd(_)
trimEnd(t) ==
  IF t # << >> /\ IsSpace(t[Len(t)]) THEN trimEnd(SubSeq(t, 1, Len(t) - 1)) ELSE t

trim(t) == trimEnd(trimStart(t))

\* String.split(/\s+/): the words between whitespace runs, empty ones included
RECURSIVE splitFrom(_, _, _)
splitFrom(t, p, acc) ==
  IF p > Len(t) THEN << acc >>
  ELSE IF IsSpace(t[p])
    THEN << acc >> \o splitFrom(trimStart(SubSeq(t, p, Len(t))), 1, << >>)
    ELSE splitFrom(t, p + 1, Append(acc, t[p]))

split(t) == splitFrom(t, 1, << >>)

\* Array.join(' ')
RECURSIVE join(_)
join(ws) ==
  IF ws = << >> THEN << >>
  ELSE IF Len(ws) = 1 THEN ws[1]
  ELSE ws[1] \o << " " >> \o join(Tail(ws))

\* str.includes(sub) at position p, and the first position where sub occurs (0: none)
StartsAt(t, p, sub) ==
  p + Len(sub) - 1 <= Len(t) /\ SubSeq(t, p, p + Len(sub) - 1) = sub

Chars(s) ==
  CASE s = "my name is" -> << "m", "y", " ", "n", "a", "m", "e", " ", "i", "s" >>
    [] s = "i'm" -> << "i", "'", "m" >>
    [] s = "i am" -> << "i", " ", "a", "m" >>
    [] s = "this is" -> << "t", "h", "i", "s", " ", "i", "s" >>
    [] s = "it's" -> << "i", "t", "'", "s" >>
    [] s = "call me" -> << "c", "a", "l", "l", " ", "m", "e" >>
    [] s = "they call me" -> << "t", "h", "e", "y", " ", "c", "a", "l", "l", " ", "m", "e" >>
    [] s = "here" -> << "h", "e", "r", "e" >>
    [] s = "speaking" -> << "s", "p", "e", "a", "k", "i", "n", "g" >>
    [] s = "and" -> << "a", "n", "d" >>
    [] s = "that's" -> << "t", "h", "a", "t", "'", "s" >>
    [] s = "spelled" -> << "s", "p", "e", "l", "l", "e", "d" >>
    [] s = "spelle" -> << "s", "p", "e", "l", "l", "e" >>
    [] s = "that'" -> << "t", "h", "a", "t", "'" >>
    [] s = "thats" -> << "t", "h", "a", "t", "s" >>
    [] s = "that" -> << "t", "h", "a", "t" >>
    [] s = "it'" -> << "i", "t", "'" >>
    [] s = "its" -> << "i", "t", "s" >>
    [] s = "it" -> << "i", "t" >>

PhoneticPairs ==
  {
    <<"alpha", "A">>, <<"alfa", "A">>, <<"bravo", "B">>, <<"charlie", "C">>,
    <<"delta", "D">>, <<"echo", "E">>, <<"foxtrot", "F">>, <<"golf", "G">>,
    <<"hotel", "H">>, <<"india", "I">>, <<"juliet", "J">>, <<"juliett", "J">>,
    <<"kilo", "K">>, <<"lima", "L">>, <<"mike", "M">>, <<"november", "N">>,
    <<"oscar", "O">>, <<"papa", "P">>, <<"quebec", "Q">>, <<"romeo", "R">>,
    <<"sierra", "S">>, <<"tango", "T">>, <<"uniform", "U">>, <<"victor", "V">>,
    <<"whiskey", "W">>, <<"whisky", "W">>, <<"xray", "X">>, <<"x-ray", "X">>,
    <<"yankee", "Y">>, <<"zulu", "Z">>, <<"apple", "A">>, <<"adam", "A">>,
    <<"able", "A">>, <<"boy", "B">>, <<"baker", "B">>, <<"bob", "B">>, <<"cat", "C">>,
    <<"carol", "C">>, <<"dog", "D">>, <<"david", "D">>, <<"edward", "E">>,
    <<"easy", "E">>, <<"egg", "E">>, <<"frank", "F">>, <<"fox", "F">>,
    <<"freddy", "F">>, <<"george", "G">>, <<"girl", "G">>, <<"henry", "H">>,
    <<"harry", "H">>, <<"how", "H">>, <<"ida", "I">>, <<"item", "I">>, <<"ice", "I">>,
    <<"john", "J">>, <<"jack", "J">>, <<"james", "J">>, <<"king", "K">>,
    <<"kate", "K">>, <<"kevin", "K">>, <<"larry", "L">>, <<"love", "L">>,
    <<"london", "L">>, <<"mary", "M">>, <<"mother", "M">>, <<"michael", "M">>,
    <<"nancy", "N">>, <<"nora", "N">>, <<"nick", "N">>, <<"ocean", "O">>,
    <<"oliver", "O">>, <<"orange", "O">>, <<"peter", "P">>, <<"paul", "P">>,
    <<"pink", "P">>, <<"queen", "Q">>, <<"robert", "R">>, <<"roger", "R">>,
    <<"red", "R">>, <<"sam", "S">>, <<"sugar", "S">>, <<"steve", "S">>, <<"tom", "T">>,
    <<"tommy", "T">>, <<"tiger", "T">>, <<"uncle", "U">>, <<"union", "U">>,
    <<"victory", "V">>, <<"vincent", "V">>, <<"william", "W">>, <<"walter", "W">>,
    <<"xerox", "X">>, <<"yellow", "Y">>, <<"young", "Y">>, <<"yoke", "Y">>,
    <<"zebra", "Z">>, <<"zero", "Z">>, <<"zoo", "Z">>
  }

PronunciationPairs ==
  {
    <<"ay", "A">>, <<"aye", "A">>, <<"eh", "A">>, <<"bee", "B">>, <<"be", "B">>,
    <<"see", "C">>, <<"sea", "C">>, <<"cee", "C">>, <<"dee", "D">>, <<"de", "D">>,
    <<"ee", "E">>, <<"e", "E">>, <<"eff", "F">>, <<"ef", "F">>, <<"gee", "G">>,
    <<"jee", "G">>, <<"aitch", "H">>, <<"ach", "H">>, <<"haitch", "H">>, <<"h", "H">>,
    <<"eye", "I">>, <<"i", "I">>, <<"jay", "J">>, <<"jey", "J">>, <<"kay", "K">>,
    <<"key", "K">>, <<"k", "K">>, <<"el", "L">>, <<"ell", "L">>, <<"em", "M">>,
    <<"en", "N">>, <<"oh", "O">>, <<"o", "O">>, <<"pee", "P">>, <<"pe", "P">>,
    <<"cue", "Q">>, <<"queue", "Q">>, <<"kew", "Q">>, <<"ar", "R">>, <<"are", "R">>,
    <<"ess", "S">>, <<"es", "S">>, <<"tee", "T">>, <<"te", "T">>, <<"you", "U">>,
    <<"yu", "U">>, <<"vee", "V">>, <<"ve", "V">>, <<"double you", "W">>,
    <<"double u", "W">>, <<"doubleyou", "W">>, <<"ex", "X">>, <<"why", "Y">>,
    <<"wy", "Y">>, <<"wye", "Y">>, <<"zee", "Z">>, <<"zed", "Z">>, <<"zet", "Z">>
  }

PHONETIC_ALPHABET ==
  [k \in {p[1] : p \in PhoneticPairs} |-> (CHOOSE p \in PhoneticPairs : p[1] = k)[2]]

LETTER_PRONUNCIATIONS ==
  [k \in {p[1] : p \in PronunciationPairs} |->
     (CHOOSE p \in PronunciationPairs : p[1] = k)[2]]

\* the longest key of LETTER_PRONUNCIATIONS ('double you')
MaxPronunciationLen == 10

\* \b between t[p-1] and t[p]
WordBoundary(t, p) ==
  LET before == p > 1 /\ p - 1 <= Len(t) /\ IsWordChar(t[p - 1])
      after == p >= 1 /\ p <= Len(t) /\ IsWordChar(t[p])
  IN before # after

IsGapChar(c) == IsSpace(c) \/ c \in {"-", ",", "."}

\* \s*[-,.\s]\s* matches exactly t[a..b]
IsLetterGap(t, a, b) ==
  /\ a <= b
  /\ \A i \in a .. b : IsGapChar(t[i])
  /\ Cardinality({i \in a .. b : ~IsSpace(t[i])}) <= 1

\* the first position after p that holds no gap character (Len(t)+1: none)
RECURSIVE skipGap(_, _)
skipGap(t, p) == IF p <= Len(t) /\ IsGapChar(t[p]) THEN skipGap(t, p + 1) ELSE p

\* the letters [a-z] reached from the letter at p by (?:\s*[-,.\s]\s*([a-z]))*
RECURSIVE letterChain(_, _)
letterChain(t, p) ==
  LET q == skipGap(t, p + 1) IN
  IF q <= Len(t) /\ IsLetter(t[q]) /\ IsLetterGap(t, p + 1, q - 1)
    THEN << p >> \o letterChain(t, q)
    ELSE << p >>

\* letterPattern at p: at least three single letters, \b on both ends
letterPatternAt(t, p) ==
  IF ~(IsLetter(t[p]) /\ WordBoundary(t, p)) THEN << >>
  ELSE LET chain == letterChain(t, p)
           last == chain[Len(chain)]
           kept == IF WordBoundary(t, last + 1) THEN chain
                   ELSE SubSeq(chain, 1, Len(chain) - 1)
       IN IF Len(kept) >= 3 THEN kept ELSE << >>

RECURSIVE skipWs(_, _)
skipWs(t, p) == IF p <= Len(t) /\ IsSpace(t[p]) THEN skipWs(t, p + 1) ELSE p

\* pronunciationPattern: ((?:alt1|alt2|...)\s*){2,}\b with the alternatives
\* longest first; the end of the first match found by backtracking (0: none)
RECURSIVE pronIter(_, _, _), pronLen(_, _, _, _), pronWs(_, _, _, _, _)
pronWs(t, p, k, q, w) ==
  IF w < 0 THEN 0
  ELSE LET p2 == q + w
           deeper == pronIter(t, p2, k + 1)
       IN IF deeper # 0 THEN deeper
          ELSE IF k + 1 >= 2 /\ WordBoundary(t, p2) THEN p2
          ELSE pronWs(t, p, k, q, w - 1)

pronLen(t, p, k, n) ==
  IF n < 1 THEN 0
  ELSE IF p + n - 1 <= Len(t)
          /\ Str(SubSeq(t, p, p + n - 1)) \in DOMAIN LETTER_PRONUNCIATIONS
    THEN LET q == p + n
             r == pronWs(t, p, k, q, skipWs(t, q) - q)
         IN IF r # 0 THEN r ELSE pronLen(t, p, k, n - 1)
    ELSE pronLen(t, p, k, n - 1)

pronIter(t, p, k) == IF p > Len(t) THEN 0 ELSE pronLen(t, p, k, MaxPronunciationLen)

\* the first position in p..Len(t) where Test holds (0: none)
firstPos(t, p, Test(_, _)) ==
  LET hits == {i \in p .. Len(t) : Test(t, i)} IN
  IF hits = {} THEN 0 ELSE CHOOSE i \in hits : \A j \in hits : i <= j

\* the characters of t at the positions ps
RECURSIVE pick(_, _)
pick(t, ps) == IF ps = << >> THEN << >> ELSE << t[Head(ps)] >> \o pick(t, Tail(ps))

RECURSIVE convertWords(_)
convertWords(ws) ==
  IF ws = << >> THEN << >>
  ELSE LET word == Head(ws)
           letter == IF Len(word) = 1 /\ IsLetter(word[1]) THEN << toUpperChar(word[1]) >>
                     ELSE IF Str(word) \in DOMAIN LETTER_PRONUNCIATIONS
                       THEN << LETTER_PRONUNCIATIONS[Str(word)] >>
                     ELSE IF Str(word) \in DOMAIN PHONETIC_ALPHABET
                       THEN << PHONETIC_ALPHABET[Str(word)] >>
                     ELSE << >>
       IN letter \o convertWords(Tail(ws))

convertPronunciationsToLetters(t) == convertWords(split(toLowerCase(t)))

CueVariants ==
  {Chars("spelled"), Chars("spelle"), Chars("that's"), Chars("that'"), Chars("thats"),
   Chars("that"), Chars("it's"), Chars("it'"), Chars("its"), Chars("it")}

\* spellingCuePattern at p: the positions of the letters of its group 1
spellingCueAt(t, p) ==
  LET ends == {p + Len(v) : v \in {v \in CueVariants : StartsAt(t, p, v)}}
      ok == {e \in ends : /\ e <= Len(t) /\ IsSpace(t[e])
                          /\ skipWs(t, e) <= Len(t) /\ IsLetter(t[skipWs(t, e)])
                          /\ Len(letterChain(t, skipWs(t, e))) >= 2}
  IN IF ok = {} THEN << >>
     ELSE letterChain(t, skipWs(t, CHOOSE e \in ok : TRUE))

HasLetterPattern(t, p) == letterPatternAt(t, p) # << >>
HasPronunciation(t, p) == WordBoundary(t, p) /\ pronIter(t, p, 0) # 0
HasSpellingCue(t, p) == spellingCueAt(t, p) # << >>

\* extractSpelledName, third method: the letters after a spelling cue at p3
spelledByCue(t, p3) ==
  IF p3 # 0 THEN toUpperCase(pick(t, spellingCueAt(t, p3))) ELSE << >>

\* extractSpelledName, second method: pron is the converted pronunciation match
spelledByPronunciation(t, pron) ==
  IF Len(pron) >= 2 THEN pron ELSE spelledByCue(t, firstPos(t, 1, HasSpellingCue))

\* the pronunciationPattern match that starts at p2, converted to letters
pronunciationAt(t, p2) ==
  IF p2 = 0 THEN << >>
  ELSE convertPronunciationsToLetters(SubSeq(t, p2, pronIter(t, p2, 0) - 1))

\* extractSpelledName, first method: the letterPattern match that starts at p1
spelledByLetters(t, p1) ==
  IF p1 # 0 THEN toUpperCase(pick(t, letterPatternAt(t, p1)))
  ELSE spelledByPronunciation(t, pronunciationAt(t, firstPos(t, 1, HasPronunciation)))

\* extractSpelledName; null is the empty text
extractSpelledName(t) == spelledByLetters(t, firstPos(t, 1, HasLetterPattern))

\* word.replace(/[^a-z]/g, '')
RECURSIVE lettersOnly(_)
lettersOnly(w) ==
  IF w = << >> THEN << >>
  ELSE (IF Head(w) \in LowerLetters THEN << Head(w) >> ELSE << >>) \o lettersOnly(Tail(w))

\* String(Object): what `result += PHONETIC_ALPHABET['constructor']` appends. The table
\* is a plain object literal, so the key 'constructor' is found on Object.prototype;
\* the text is the one Node prints for a built-in function
ObjectFunctionText ==
  <<
     "f", "u", "n", "c", "t", "i", "o", "n", " ", "O", "b", "j", "e", "c", "t", "(",
     ")", " ", "{", " ", "[", "n", "a", "t", "i", "v", "e", " ", "c", "o", "d", "e",
     "]", " ", "}"
  >>

\* PHONETIC_ALPHABET[cleaned] as the text that `+=` appends; undefined is the empty text.
\* 'constructor' is the only inherited property name made of the letters a-z alone
phoneticLookup(cleaned) ==
  IF cleaned \in DOMAIN PHONETIC_ALPHABET THEN << PHONETIC_ALPHABET[cleaned] >>
  ELSE IF cleaned = "constructor" THEN ObjectFunctionText
  ELSE << >>

\* the loop of extractNatoPhoneticName over the remaining words
RECURSIVE natoLoop(_, _, _, _, _)
natoLoop(ws, result, consecutiveMatches, maxConsecutive, bestResult) ==
  IF ws = << >> THEN IF maxConsecutive >= 2 THEN bestResult ELSE << >>
  ELSE IF phoneticLookup(Str(lettersOnly(Head(ws)))) # << >>
    THEN LET r == result \o phoneticLookup(Str(lettersOnly(Head(ws))))
             c == consecutiveMatches + 1
         IN IF c > maxConsecutive
              THEN natoLoop(Tail(ws), r, c, c, r)
              ELSE natoLoop(Tail(ws), r, c, maxConsecutive, bestResult)
    ELSE natoLoop(Tail(ws), << >>, 0, maxConsecutive, bestResult)

extractNatoPhoneticName(t) == natoLoop(split(toLowerCase(t)), << >>, 0, 0, << >>)

LeadingFillers ==
  {Chars("my name is"), Chars("i'm"), Chars("i am"), Chars("this is"), Chars("it's"),
   Chars("call me"), Chars("they call me")}

\* .replace(/^(my name is|i'm|...)\s+/i, '')
stripLeadingFiller(t) ==
  LET low == toLowerCase(t)
      hits == {f \in LeadingFillers :
                 StartsAt(low, 1, f) /\ Len(f) < Len(t) /\ IsSpace(t[Len(f) + 1])}
  IN IF hits = {} THEN t
     ELSE LET f == CHOOSE f \in hits : \A h \in hits : Len(f) <= Len(h)
          IN SubSeq(t, skipWs(t, Len(f) + 1), Len(t))

\* the leftmost match of \s+(w1|w2|...) where the words are `fillers`;
\* atEnd asks for the end of the text right after the word (0: none)
trailingFillerPos(t, fillers, atEnd) ==
  LET low == toLowerCase(t)
      Hit(x, p) == /\ IsSpace(x[p])
                   /\ \E f \in fillers :
                        /\ StartsAt(low, skipWs(x, p), f)
                        /\ atEnd => skipWs(x, p) + Len(f) - 1 = Len(x)
  IN firstPos(t, 1, Hit)

cutAt(t, p) == IF p = 0 THEN t ELSE SubSeq(t, 1, p - 1)

\* the end of /^([a-z]+(?:\s+[a-z]+)?)/i in t (0: no match)
RECURSIVE skipLetters(_, _)
skipLetters(t, p) == IF p <= Len(t) /\ IsLetter(t[p]) THEN skipLetters(t, p + 1) ELSE p

nameMatchEnd(t) ==
  LET e1 == skipLetters(t, 1)
      s2 == skipWs(t, e1)
      e2 == skipLetters(t, s2)
  IN IF e1 = 1 THEN 0
     ELSE IF s2 > e1 /\ e2 > s2 THEN e2 - 1 ELSE e1 - 1

IsComma(t, p) == t[p] = ","

TrailingFillers ==
  {Chars("here"), Chars("speaking"), Chars("and"), Chars("that's"), Chars("spelled")}

\* extractPhoneticName: the match of /^([a-z]+(?:\s+[a-z]+)?)/i ending at e, or all of cleaned
phoneticMatch(cleaned, e) == IF e # 0 THEN SubSeq(cleaned, 1, e) ELSE cleaned

\* extractPhoneticName: cleaned.split(',')[0].trim() when there is a comma at p
phoneticBeforeComma(cleaned, p) == IF p # 0 THEN trim(cutAt(cleaned, p)) ELSE cleaned

\* extractPhoneticName; null is the empty text
extractPhoneticName(t) ==
  LET a == stripLeadingFiller(t)
      b == trim(cutAt(a, trailingFillerPos(a, TrailingFillers, FALSE)))
      cleaned == phoneticBeforeComma(b, firstPos(b, 1, IsComma))
  IN phoneticMatch(cleaned, nameMatchEnd(cleaned))

\* .replace(/[.,!?]+$/g, '')
RECURSIVE stripTrailingPunctuation(_)
stripTrailingPunctuation(t) ==
  IF t # << >> /\ t[Len(t)] \in {".", ",", "!", "?"}
    THEN stripTrailingPunctuation(SubSeq(t, 1, Len(t) - 1))
    ELSE t

EndFillers == {Chars("here"), Chars("speaking")}

\* cleanTranscript after the leading filler is gone
cleanAfterFiller(a) ==
  trim(stripTrailingPunctuation(cutAt(a, trailingFillerPos(a, EndFillers, TRUE))))

cleanTranscript(t) == cleanAfterFiller(stripLeadingFiller(t))

RECURSIVE capitalizeWords(_)
capitalizeWords(ws) ==
  IF ws = << >> THEN << >>
  ELSE << IF Head(ws) = << >> THEN << >>
          ELSE << toUpperChar(Head(ws)[1]) >> \o Tail(Head(ws)) >>
       \o capitalizeWords(Tail(ws))

capitalizeFirst(t) == join(capitalizeWords(split(toLowerCase(t))))

NameExtractionResult(name, confidence, method) ==
  [name |-> capitalizeFirst(name), confidence |-> confidence, method |-> method]

\* extractName: the choice among the results of the three methods
chooseName_phoneticFirst(originalText, spelledName, natoName, phoneticName) ==
  IF phoneticName # << >> THEN NameExtractionResult(phoneticName, "medium", "phonetic")
  ELSE IF Len(spelledName) >= 2 THEN NameExtractionResult(spelledName, "high", "spelled")
  ELSE IF Len(natoName) >= 2 THEN NameExtractionResult(natoName, "high", "nato")
  ELSE NameExtractionResult(cleanTranscript(originalText), "low", "phonetic")

chooseName(originalText, spelledName, natoName, phoneticName) ==
  IF Len(spelledName) >= 2 THEN NameExtractionResult(spelledName, "high", "spelled")
  ELSE IF Len(natoName) >= 2 THEN NameExtractionResult(natoName, "high", "nato")
  ELSE IF phoneticName # << >> THEN NameExtractionResult(phoneticName, "medium", "phonetic")
  ELSE NameExtractionResult(cleanTranscript(originalText), "low", "phonetic")

\* extractName on originalText = transcript.trim() and normalized = its lower case
extractNormalized(originalText, normalized) ==
  chooseName(originalText, extractSpelledName(normalized),
             extractNatoPhoneticName(normalized), extractPhoneticName(normalized))

extractTrimmed(originalText) == extractNormalized(originalText, toLowerCase(originalText))

extractName(transcript) == extractTrimmed(trim(transcript))

isValidName(name) ==
  /\ Len(name) >= 1
  /\ Len(name) <= NameLimit
  /\ \E i \in DOMAIN name : IsLetter(name[i])
  /\ \A i \in DOMAIN name : IsLetter(name[i]) \/ IsSpace(name[i]) \/ name[i] \in {"'", "-"}


\* An event emitted to a socket. n is the provider result that caused it (0: none).
Ev(type, info) == [type |-> type, info |-> info, n |-> 0, tag |-> 0, name |-> NoName]

TEv(type, info, n, tag, name) ==
  [type |-> type, info |-> info, n |-> n, tag |-> tag, name |-> name]

\* ------------------------------------------------- GoogleSpeechService
\* The service's mutable state, threaded through its methods. stoppedHeard and
\* restartedHeard collect the sessions whose emitter delivered 'stopped' and
\* 'restarted' to a listener during the call.
GState ==
  [sessions |-> googleSessions, streams |-> streams, timers |-> restartTimers,
   stoppedHeard |-> {}, restartedHeard |-> {}]

HasFreeStream(st) == \E i \in StreamIds : st[i].session = 0

FreeStreamId(st) ==
  CHOOSE i \in StreamIds :
    st[i].session = 0 /\ \A j \in StreamIds : st[j].session = 0 => i <= j

Google_createStreamSession(sessions, sid, meetingId) ==
  [sessions EXCEPT ![sid] =
     [created |-> TRUE, registered |-> TRUE, meetingId |-> meetingId,
      recognizeStream |-> 0, isActive |-> FALSE, restartCount |-> 0,
      audioInputStreamTimestamp |-> now, listeners |-> FALSE]]

createRecognizeStream(g, sid) ==
  LET id == FreeStreamId(g.streams) IN
  [g EXCEPT !.streams[id] = [session |-> sid, writableEnded |-> FALSE,
                             destroyed |-> FALSE, finished |-> FALSE],
            !.sessions[sid].recognizeStream = id,
            !.sessions[sid].isActive = TRUE,
            !.sessions[sid].audioInputStreamTimestamp = now]

\* restartStream with the teardown of the old stream left to the timer callback.
restartStream_deferred(g, sid) ==
  IF ~g.sessions[sid].isActive THEN g
  ELSE [g EXCEPT !.sessions[sid].restartCount = @ + 1, !.timers[sid] = @ + 1]

restartStream(g, sid) ==
  LET s == g.sessions[sid] IN
  IF ~s.isActive THEN g
  ELSE LET g1 == [g EXCEPT !.sessions[sid].restartCount = @ + 1,
                           !.sessions[sid].isActive = FALSE]
           g2 == IF s.recognizeStream # 0
                   THEN [g1 EXCEPT !.streams[s.recognizeStream].writableEnded = TRUE,
                                   !.sessions[sid].recognizeStream = 0]
                   ELSE g1
       IN [g2 EXCEPT !.timers[sid] = @ + 1]

\* The setTimeout callback of restartStream, without the sessions.has check.
onRestartTimer_unchecked(g, sid) ==
  LET g1 == createRecognizeStream([g EXCEPT !.timers[sid] = @ - 1], sid) IN
  [g1 EXCEPT !.restartedHeard = IF g.sessions[sid].listeners THEN @ \cup {sid} ELSE @]

\* The setTimeout callback of restartStream.
onRestartTimer(g, sid) ==
  LET g0 == [g EXCEPT !.timers[sid] = @ - 1] IN
  IF ~g.sessions[sid].registered THEN g0
  ELSE [createRecognizeStream(g0, sid) EXCEPT
          !.restartedHeard = IF g.sessions[sid].listeners THEN @ \cup {sid} ELSE @]

\* The 'error' listener of a recognize stream that also marks the session inactive.
onStreamError_deactivate(g, sid, timeout) ==
  IF timeout THEN restartStream(g, sid)
  ELSE [g EXCEPT !.sessions[sid].isActive = FALSE]

\* The 'error' listener of a recognize stream: a timeout message restarts the
\* stream, any other error is emitted on the session emitter (by the caller).
onStreamError(g, sid, timeout) ==
  IF timeout THEN restartStream(g, sid) ELSE g

\* Date.now() - session.audioInputStreamTimestamp, in milliseconds
elapsedTime(s) == (now - s.audioInputStreamTimestamp) * TickMs

\* writeAudio without the try/catch around recognizeStream.write.
Google_writeAudio_uncaught(g, sid, outcome) ==
  LET s == g.sessions[sid] IN
  IF ~s.registered \/ s.recognizeStream = 0 \/ ~s.isActive
    THEN [g |-> g, ret |-> "false", wrote |-> FALSE]
  ELSE IF g.streams[s.recognizeStream].destroyed
          \/ g.streams[s.recognizeStream].writableEnded
    THEN [g |-> g, ret |-> "false", wrote |-> FALSE]
  ELSE IF elapsedTime(s) > streamingLimit
    THEN [g |-> restartStream(g, sid), ret |-> "true", wrote |-> FALSE]
  ELSE IF outcome = "ok"
    THEN [g |-> g, ret |-> "true", wrote |-> TRUE]
  ELSE [g |-> g, ret |-> "raised", wrote |-> FALSE]

\* outcome is what recognizeStream.write does: "ok", or it throws a
\* "write after ..." error ("writeAfter") or another error ("other").
\* ret is "true" or "false" ("raised": an exception left the method).
Google_writeAudio(g, sid, outcome) ==
  LET s == g.sessions[sid] IN
  IF ~s.registered \/ s.recognizeStream = 0 \/ ~s.isActive
    THEN [g |-> g, ret |-> "false", wrote |-> FALSE]
  ELSE IF g.streams[s.recognizeStream].destroyed
          \/ g.streams[s.recognizeStream].writableEnded
    THEN [g |-> g, ret |-> "false", wrote |-> FALSE]
  ELSE IF elapsedTime(s) > streamingLimit
    THEN [g |-> restartStream(g, sid), ret |-> "true", wrote |-> FALSE]
  ELSE IF outcome = "ok"
    THEN [g |-> g, ret |-> "true", wrote |-> TRUE]
  ELSE IF outcome = "writeAfter"
    THEN [g |-> restartStream(g, sid), ret |-> "false", wrote |-> FALSE]
  ELSE [g |-> g, ret |-> "false", wrote |-> FALSE]

Google_stopStreaming(g, sid) ==
  LET s == g.sessions[sid] IN
  IF ~s.registered THEN g
  ELSE LET g1 == IF s.recognizeStream # 0
                   THEN [g EXCEPT !.streams[s.recognizeStream].writableEnded = TRUE]
                   ELSE g
       IN [g1 EXCEPT !.sessions[sid].isActive = FALSE,
                     !.stoppedHeard = IF s.listeners THEN @ \cup {sid} ELSE @]

Google_destroySession(g, sid) ==
  IF ~g.sessions[sid].registered THEN g
  ELSE [Google_stopStreaming(g, sid) EXCEPT !.sessions[sid].listeners = FALSE,
                                            !.sessions[sid].registered = FALSE]

\* ------------------------------------------------------ DeepgramService
Deepgram_createStreamSession(sessions, sid, meetingId) ==
  [sessions EXCEPT ![sid] =
     [created |-> TRUE, registered |-> TRUE, meetingId |-> meetingId,
      connection |-> "none", finishCalled |-> FALSE, isActive |-> FALSE,
      listeners |-> FALSE]]

\* ok is whether listen.live(...) returned a connection (it throws otherwise).
Deepgram_startStreaming(sessions, sid, ok) ==
  IF ~sessions[sid].registered \/ ~ok THEN sessions
  ELSE [sessions EXCEPT ![sid].connection = "connecting"]

\* outcome is what connection.send does: "ok" or it throws ("other").
Deepgram_writeAudio(sessions, sid, outcome) ==
  LET s == sessions[sid] IN
  IF ~s.registered \/ s.connection = "none" \/ ~s.isActive
    THEN [ret |-> "false", wrote |-> FALSE]
  ELSE IF outcome = "ok" THEN [ret |-> "true", wrote |-> TRUE]
  ELSE [ret |-> "false", wrote |-> FALSE]

Deepgram_stopStreaming(sessions, sid) ==
  LET s == sessions[sid] IN
  IF ~s.registered THEN sessions
  ELSE [sessions EXCEPT ![sid].finishCalled = (s.connection # "none") \/ @,
                        ![sid].isActive = FALSE]

Deepgram_destroySession(sessions, sid) ==
  IF ~sessions[sid].registered THEN sessions
  ELSE [Deepgram_stopStreaming(sessions, sid) EXCEPT ![sid].listeners = FALSE,
                                                     ![sid].registered = FALSE]

\* -------------------------------------------------- TranscriptionGateway
\* Everything the gateway's lifecycle handlers touch, threaded through its helpers.
World ==
  [g |-> GState, d |-> deepgramSessions, objs |-> sessionObjs,
   cs |-> clientSessions, ev |-> clientEvents]

Emit(w, c, e) == [w EXCEPT !.ev[c] = @ \cup {e}]

\* The gateway's 'stopped' listener of a Google session: clientSession.isStreaming = false.
HearStopped(w) ==
  [w EXCEPT !.objs = [o \in Sids |-> IF o \in w.g.stoppedHeard
                                       THEN [w.objs[o] EXCEPT !.isStreaming = FALSE]
                                       ELSE w.objs[o]],
            !.g.stoppedHeard = {}]

\* The gateway's 'restarted' listener of a Google session: client.emit('streamRestarted').
HearRestarted(w, sid) ==
  IF sid \in w.g.restartedHeard
    THEN Emit([w EXCEPT !.g.restartedHeard = {}], w.objs[sid].socketId,
              Ev("streamRestarted", ""))
    ELSE w

\* The preference the other way round: Google first.
getPreferredProvider_googleFirst ==
  IF googleAvailable THEN "google"
  ELSE IF deepgramAvailable THEN "deepgram"
  ELSE "none"

getPreferredProvider ==
  IF deepgramAvailable THEN "deepgram"
  ELSE IF googleAvailable THEN "google"
  ELSE "none"

stopAndDestroy(w, sid, provider) ==
  IF provider = "deepgram"
    THEN [w EXCEPT !.d = Deepgram_destroySession(Deepgram_stopStreaming(w.d, sid), sid)]
    ELSE HearStopped([w EXCEPT !.g = Google_destroySession(Google_stopStreaming(w.g, sid), sid)])

cleanupClientSession(w, c) ==
  LET sid == w.cs[c] IN
  IF sid = 0 THEN w
  ELSE LET w1 == IF w.objs[sid].provider = "deepgram"
                   THEN [w EXCEPT !.d = Deepgram_destroySession(w.d, sid)]
                   ELSE HearStopped([w EXCEPT !.g = Google_destroySession(w.g, sid)])
       IN [w1 EXCEPT !.cs[c] = 0]

Apply(w) ==
  /\ googleSessions' = w.g.sessions
  /\ streams' = w.g.streams
  /\ restartTimers' = w.g.timers
  /\ deepgramSessions' = w.d
  /\ sessionObjs' = w.objs
  /\ clientSessions' = w.cs
  /\ clientEvents' = w.ev

Init ==
  /\ deepgramAvailable \in BOOLEAN
  /\ googleAvailable \in BOOLEAN
  /\ now = 0
  /\ nextSid = 1
  /\ googleSessions = [s \in Sids |-> NoGoogleSession]
  /\ streams = [i \in StreamIds |-> NoStream]
  /\ restartTimers = [s \in Sids |-> 0]
  /\ deepgramSessions = [s \in Sids |-> NoDeepgramSession]
  /\ sessionObjs = [s \in Sids |-> NoClientSession]
  /\ clientSessions = [c \in Conns |-> 0]
  /\ connected = [c \in Conns |-> TRUE]
  /\ pendingStart = {}
  /\ pendingStop = {}
  /\ clientEvents = [c \in Conns |-> {}]
  /\ uncaught = {}
  /\ numErrors = 0
  /\ lastError = NoError
  /\ lastWrite = NoWrite
  /\ speakerMappingStore = {}
  /\ nextMapId = 1
  /\ segments = << >>
  /\ pendingSaves = {}
  /\ pendingEnroll = {}
  /\ numEvents = 0
  /\ handled = {}
  /\ pendingManual = {}
  /\ numRequests = 0
  /\ lastRequest = NoRequest
  /\ lastSave = NoSave
  /\ recon = NoRecon
  /\ lastRead = NoRead
  /\ job = NoJob
  /\ meetingStatus = "processing"
  /\ extraction = NoExtraction
  /\ validation = NoValidation

envVars == << deepgramAvailable, googleAvailable >>

streamVars == << now, numErrors, lastError, lastWrite >>

requestVars == << pendingManual, numRequests, lastRequest, lastSave >>

reconcileVars == << recon, lastRead >>

jobVars == << job, meetingStatus >>

\* the recorded calls of the functions of name-extractor.ts
callVars == << extraction, validation >>

aggVars == << speakerMappingStore, nextMapId, segments, pendingSaves, pendingEnroll,
              numEvents, handled >>

\* SpeakerEnrollmentService.getSpeakerMappings: Map speakerTag -> speakerName
getSpeakerMappings(store, meetingId) ==
  [t \in Tags |->
     IF \E r \in store : r.meetingId = meetingId /\ r.speakerTag = t
       THEN (CHOOSE r \in store : r.meetingId = meetingId /\ r.speakerTag = t).speakerName
       ELSE NoName]

\* startSession up to its first await (getSpeakerMappings); meetingId is present.
\* limit is the number of provider sessions one run creates.
StartSessionUpTo(c, meetingId, mode, limit) ==
  /\ connected[c]
  /\ LET provider == getPreferredProvider IN
     IF provider = "none"
       THEN /\ clientEvents' = [clientEvents EXCEPT ![c] = @ \cup {Ev("error", "unavailable")}]
            /\ UNCHANGED << nextSid, googleSessions, deepgramSessions, pendingStart >>
       ELSE /\ nextSid <= limit
            /\ nextSid' = nextSid + 1
            /\ IF provider = "deepgram"
                 THEN /\ deepgramSessions' =
                           Deepgram_createStreamSession(deepgramSessions, nextSid, meetingId)
                      /\ UNCHANGED googleSessions
                 ELSE /\ googleSessions' =
                           Google_createStreamSession(googleSessions, nextSid, meetingId)
                      /\ UNCHANGED deepgramSessions
            /\ pendingStart' = pendingStart \cup
                 {[conn |-> c, sid |-> nextSid, meetingId |-> meetingId, mode |-> mode,
                   provider |-> provider]}
            /\ UNCHANGED clientEvents
  /\ UNCHANGED << envVars, requestVars, reconcileVars, jobVars, callVars,
                  streamVars, aggVars, streams, restartTimers, sessionObjs,
                  clientSessions, connected, pendingStop, uncaught >>

StartSessionBegin(c, meetingId, mode) == StartSessionUpTo(c, meetingId, mode, MaxSessions)

\* startSession after the await: registers the client session, starts the
\* provider stream, attaches the listeners and reports the start.
\* ok is whether Deepgram's listen.live(...) returned a connection.
StartSessionResume(p, ok) ==
  /\ p \in pendingStart
  /\ pendingStart' = pendingStart \ {p}
  /\ p.provider = "google" /\ googleSessions[p.sid].registered => HasFreeStream(streams)
  /\ p.provider = "google" => ok
  /\ LET sid == p.sid
         w0 == [World EXCEPT
                  !.objs[sid] = [exists |-> TRUE, socketId |-> p.conn,
                                 meetingId |-> p.meetingId, isStreaming |-> FALSE,
                                 mode |-> p.mode,
                                 speakerMappings |->
                                   getSpeakerMappings(speakerMappingStore, p.meetingId),
                                 provider |-> p.provider],
                  !.cs[p.conn] = sid]
         w1 == IF p.provider = "deepgram"
                 THEN IF w0.d[sid].registered /\ ok
                        THEN [w0 EXCEPT !.d = [Deepgram_startStreaming(w0.d, sid, ok)
                                                 EXCEPT ![sid].listeners = TRUE],
                                        !.objs[sid].isStreaming = TRUE]
                        ELSE w0
                 ELSE IF w0.g.sessions[sid].registered
                        THEN [w0 EXCEPT !.g = [createRecognizeStream(w0.g, sid)
                                                 EXCEPT !.sessions[sid].listeners = TRUE],
                                        !.objs[sid].isStreaming = TRUE]
                        ELSE w0
     IN Apply(Emit(w1, p.conn,
                   Ev(IF p.mode = "enrollment" THEN "enrollmentStarted"
                                               ELSE "transcriptionStarted", "")))
  /\ UNCHANGED << envVars, requestVars, reconcileVars, jobVars, callVars,
                  streamVars, aggVars, nextSid, connected, pendingStop, uncaught >>

\* handleAudioData; it returns early without a streaming client session.
handleAudioData(c, outcome) ==
  /\ connected[c]
  /\ clientSessions[c] # 0
  /\ sessionObjs[clientSessions[c]].isStreaming
  /\ LET sid == clientSessions[c]
         provider == sessionObjs[sid].provider
         gs == googleSessions[sid]
         ds == deepgramSessions[sid]
         isG == provider = "google"
         known == IF isG THEN gs.registered ELSE ds.registered
         hadStream == IF isG THEN gs.recognizeStream # 0 ELSE ds.connection # "none"
         wasActive == IF isG THEN gs.isActive ELSE ds.isActive
         unwritable == isG /\ gs.recognizeStream # 0
                       /\ (streams[gs.recognizeStream].destroyed
                           \/ streams[gs.recognizeStream].writableEnded)
         streamOpen == IF isG
                         THEN gs.recognizeStream # 0 /\ ~unwritable
                              /\ ~streams[gs.recognizeStream].finished
                         ELSE ds.connection = "open" /\ ~ds.finishCalled
         overLimit == isG /\ elapsedTime(gs) > streamingLimit
         attempted == known /\ hadStream /\ wasActive /\ ~unwritable /\ ~overLimit
         gr == Google_writeAudio(GState, sid, outcome)
         dr == Deepgram_writeAudio(deepgramSessions, sid, outcome)
     IN /\ outcome # "ok" => attempted
        /\ outcome = "writeAfter" => isG
        /\ IF isG
             THEN /\ googleSessions' = gr.g.sessions
                  /\ streams' = gr.g.streams
                  /\ restartTimers' = gr.g.timers
             ELSE UNCHANGED << googleSessions, streams, restartTimers >>
        /\ lastWrite' =
             [called |-> TRUE, provider |-> provider, sid |-> sid, known |-> known,
              hadStream |-> hadStream, wasActive |-> wasActive,
              unwritable |-> unwritable, streamOpen |-> streamOpen,
              restarting |-> isG /\ restartTimers[sid] > 0,
              restartCount |-> IF isG THEN gs.restartCount ELSE 0,
              destroyed |-> IF isG THEN gs.created /\ ~gs.registered
                                   ELSE ds.created /\ ~ds.registered,
              overLimit |-> known /\ hadStream /\ wasActive /\ ~unwritable /\ overLimit,
              outcome |-> IF attempted THEN outcome ELSE "",
              ret |-> IF isG THEN gr.ret ELSE dr.ret,
              wrote |-> IF isG THEN gr.wrote ELSE dr.wrote,
              stream |-> IF isG /\ gr.wrote THEN gs.recognizeStream ELSE 0]
        /\ uncaught' = IF (IF isG THEN gr.ret ELSE dr.ret) = "raised"
                         THEN uncaught \cup {"writeAudio"} ELSE uncaught
  /\ UNCHANGED << envVars, requestVars, reconcileVars, jobVars, callVars,
                  aggVars, now, numErrors, lastError, nextSid, deepgramSessions,
                  sessionObjs, clientSessions, connected, pendingStart, pendingStop,
                  clientEvents >>

\* handleStopTranscription up to its first await.
StopTranscriptionBegin(c) ==
  /\ connected[c]
  /\ clientSessions[c] # 0
  /\ LET sid == clientSessions[c] IN
     /\ Apply(stopAndDestroy(World, sid, sessionObjs[sid].provider))
     /\ pendingStop' = pendingStop \cup
          {[conn |-> c, sid |-> sid, meetingId |-> sessionObjs[sid].meetingId,
            kind |-> "transcription"]}
  /\ UNCHANGED << envVars, requestVars, reconcileVars, jobVars, callVars,
                  streamVars, aggVars, nextSid, connected, pendingStart, uncaught >>

\* handleStopEnrollment up to its await.
StopEnrollmentBegin(c) ==
  /\ connected[c]
  /\ clientSessions[c] # 0
  /\ LET sid == clientSessions[c] IN
     /\ Apply(stopAndDestroy(World, sid, sessionObjs[sid].provider))
     /\ pendingStop' = pendingStop \cup
          {[conn |-> c, sid |-> sid, meetingId |-> sessionObjs[sid].meetingId,
            kind |-> "enrollment"]}
  /\ UNCHANGED << envVars, requestVars, reconcileVars, jobVars, callVars,
                  streamVars, aggVars, nextSid, connected, pendingStart, uncaught >>

\* TranscriptionService.deleteInterimSegments
deleteInterimSegments(segs, meetingId) ==
  SelectSeq(segs, LAMBDA x : ~(x.meetingId = meetingId /\ ~x.isFinal))

\* handleStopTranscription after its awaits: deleteInterimSegments,
\* generateFullTranscript, transcriptionStopped, cleanupClientSession.
StopTranscriptionFinish(p) ==
  /\ p \in pendingStop
  /\ p.kind = "transcription"
  /\ pendingStop' = pendingStop \ {p}
  /\ segments' = deleteInterimSegments(segments, p.meetingId)
  /\ Apply(cleanupClientSession(Emit(World, p.conn, Ev("transcriptionStopped", "")),
                                p.conn))
  /\ UNCHANGED << envVars, requestVars, reconcileVars, jobVars, callVars,
                  streamVars, nextSid, connected, pendingStart, uncaught,
                  speakerMappingStore, nextMapId, pendingSaves, pendingEnroll,
                  numEvents, handled >>

\* handleStopEnrollment after its await: enrollmentStopped, clientSessions.delete.
StopEnrollmentFinish(p) ==
  /\ p \in pendingStop
  /\ p.kind = "enrollment"
  /\ pendingStop' = pendingStop \ {p}
  /\ Apply([Emit(World, p.conn, Ev("enrollmentStopped", "")) EXCEPT !.cs[p.conn] = 0])
  /\ UNCHANGED << envVars, requestVars, reconcileVars, jobVars, callVars,
                  streamVars, aggVars, nextSid, connected, pendingStart, uncaught >>

handleDisconnect(c) ==
  /\ connected[c]
  /\ connected' = [connected EXCEPT ![c] = FALSE]
  /\ Apply(cleanupClientSession(World, c))
  /\ UNCHANGED << envVars, requestVars, reconcileVars, jobVars, callVars,
                  streamVars, aggVars, nextSid, pendingStart, pendingStop,
                  uncaught >>

\* ------------------------------------------------- provider callbacks
\* The 'error' event of a recognize stream.
\* timeout: the message includes 'exceeded' or 'timeout'; destroys: whether the
\* failed stream reports destroyed afterwards.
StreamError(st, timeout, destroys) ==
  /\ streams[st].session # 0
  /\ ~streams[st].finished
  /\ numErrors < MaxErrors
  /\ numErrors' = numErrors + 1
  /\ LET sid == streams[st].session
         s == googleSessions[sid]
         g0 == [GState EXCEPT !.streams[st].finished = TRUE,
                              !.streams[st].destroyed = @ \/ destroys]
         g1 == onStreamError(g0, sid, timeout)
         heard == ~timeout /\ s.listeners
     IN /\ Apply(IF heard
                   THEN Emit([World EXCEPT !.g = g1], sessionObjs[sid].socketId,
                             Ev("error", "hard"))
                   ELSE [World EXCEPT !.g = g1])
        /\ uncaught' = IF ~timeout /\ ~s.listeners THEN uncaught \cup {"emitError"}
                                                   ELSE uncaught
        /\ lastError' = [n |-> numErrors + 1, provider |-> "google", sid |-> sid,
                         known |-> s.registered, timeout |-> timeout, heard |-> heard,
                         forwarded |-> heard, restarted |-> g1.timers[sid] > 0]
  /\ UNCHANGED << envVars, requestVars, reconcileVars, jobVars, callVars,
                  aggVars, now, lastWrite, nextSid, connected, pendingStart,
                  pendingStop >>

\* The 'end' listener of a recognize stream: session.isActive = false.
StreamEnd(st) ==
  /\ streams[st].session # 0
  /\ ~streams[st].finished
  /\ streams' = [streams EXCEPT ![st].finished = TRUE]
  /\ googleSessions' = [googleSessions EXCEPT ![streams[st].session].isActive = FALSE]
  /\ UNCHANGED << envVars, requestVars, reconcileVars, jobVars, callVars,
                  streamVars, aggVars, nextSid, restartTimers, deepgramSessions,
                  sessionObjs, clientSessions, connected, pendingStart, pendingStop,
                  clientEvents, uncaught >>

\* The setTimeout callback of restartStream fires (a stream id must be left).
RestartTimer(sid) ==
  /\ restartTimers[sid] > 0
  /\ HasFreeStream(streams)
  /\ Apply(HearRestarted([World EXCEPT !.g = onRestartTimer(GState, sid)], sid))
  /\ UNCHANGED << envVars, requestVars, reconcileVars, jobVars, callVars,
                  streamVars, aggVars, nextSid, connected, pendingStart,
                  pendingStop, uncaught >>

\* LiveTranscriptionEvents.Open
DeepgramOpen(sid) ==
  /\ deepgramSessions[sid].connection = "connecting"
  /\ deepgramSessions' = [deepgramSessions EXCEPT ![sid].connection = "open",
                                                  ![sid].isActive = TRUE]
  /\ UNCHANGED << envVars, requestVars, reconcileVars, jobVars, callVars,
                  streamVars, aggVars, nextSid, googleSessions, streams,
                  restartTimers, sessionObjs, clientSessions, connected, pendingStart,
                  pendingStop, clientEvents, uncaught >>

\* LiveTranscriptionEvents.Error: every error is emitted on the session emitter, and
\* the gateway's 'error' listener forwards it to the client.
DeepgramError(sid, timeout) ==
  /\ deepgramSessions[sid].connection \in {"connecting", "open"}
  /\ numErrors < MaxErrors
  /\ numErrors' = numErrors + 1
  /\ LET heard == deepgramSessions[sid].listeners IN
     /\ clientEvents' =
          IF heard
            THEN [clientEvents EXCEPT ![sessionObjs[sid].socketId] =
                    @ \cup {Ev("error", IF timeout THEN "timeout" ELSE "hard")}]
            ELSE clientEvents
     /\ uncaught' = IF heard THEN uncaught ELSE uncaught \cup {"emitError"}
     /\ lastError' = [n |-> numErrors + 1, provider |-> "deepgram", sid |-> sid,
                      known |-> deepgramSessions[sid].registered, timeout |-> timeout,
                      heard |-> heard, forwarded |-> heard, restarted |-> FALSE]
  /\ UNCHANGED << envVars, requestVars, reconcileVars, jobVars, callVars,
                  aggVars, now, lastWrite, nextSid, googleSessions, streams,
                  restartTimers, deepgramSessions, sessionObjs, clientSessions,
                  connected, pendingStart, pendingStop >>

\* LiveTranscriptionEvents.Close, and the gateway's 'closed' listener.
DeepgramClose(sid) ==
  /\ deepgramSessions[sid].connection \in {"connecting", "open"}
  /\ deepgramSessions' = [deepgramSessions EXCEPT ![sid].connection = "closed",
                                                  ![sid].isActive = FALSE]
  /\ sessionObjs' = IF deepgramSessions[sid].listeners
                      THEN [sessionObjs EXCEPT ![sid].isStreaming = FALSE]
                      ELSE sessionObjs
  /\ UNCHANGED << envVars, requestVars, reconcileVars, jobVars, callVars,
                  streamVars, aggVars, nextSid, googleSessions, streams,
                  restartTimers, clientSessions, connected, pendingStart, pendingStop,
                  clientEvents, uncaught >>

\* Date.now() advances.
Tick ==
  /\ now < MaxTicks
  /\ now' = now + 1
  /\ UNCHANGED << envVars, requestVars, reconcileVars, jobVars, callVars,
                  aggVars, numErrors, lastError, lastWrite, nextSid,
                  googleSessions, streams, restartTimers, deepgramSessions, sessionObjs,
                  clientSessions, connected, pendingStart, pendingStop, clientEvents,
                  uncaught >>

Modes == {"enrollment", "transcription"}
WriteOutcomes == {"ok", "writeAfter", "other"}

\* The session lifecycle: start, audio, restart, errors, stop, disconnect.
NextStream ==
  \/ \E c \in Conns, m \in Meetings, mode \in Modes : StartSessionBegin(c, m, mode)
  \/ \E p \in pendingStart, ok \in BOOLEAN : StartSessionResume(p, ok)
  \/ \E c \in Conns, o \in WriteOutcomes : handleAudioData(c, o)
  \/ \E c \in Conns : StopTranscriptionBegin(c)
  \/ \E p \in pendingStop : StopTranscriptionFinish(p)
  \/ \E c \in Conns : StopEnrollmentBegin(c)
  \/ \E p \in pendingStop : StopEnrollmentFinish(p)
  \/ \E c \in Conns : handleDisconnect(c)
  \/ \E st \in StreamIds, t \in BOOLEAN, d \in BOOLEAN : StreamError(st, t, d)
  \/ \E st \in StreamIds : StreamEnd(st)
  \/ \E sid \in Sids : RestartTimer(sid)
  \/ \E sid \in Sids : DeepgramOpen(sid)
  \/ \E sid \in Sids, t \in BOOLEAN : DeepgramError(sid, t)
  \/ \E sid \in Sids : DeepgramClose(sid)
  \/ Tick

SpecStream == Init /\ [][NextStream]_vars

\* ------------------------------------------------- provider result events
\* Times are kept in milliseconds.
NoDuration == [present |-> FALSE, seconds |-> 0, nanos |-> 0]

Duration(seconds, nanos) == [present |-> TRUE, seconds |-> seconds, nanos |-> nanos]

\* GoogleSpeechService.durationToSeconds
durationToSeconds(duration) ==
  IF ~duration.present THEN 0
  ELSE duration.seconds * 1000 + duration.nanos \div 1000000

\* how often tag occurs in tags
RECURSIVE countTag(_, _)
countTag(tags, tag) ==
  IF tags = << >> THEN 0
  ELSE (IF Head(tags) = tag THEN 1 ELSE 0) + countTag(Tail(tags), tag)

\* The loop over speakerTagCounts (a Map, iterated in insertion order): the first
\* inserted tag whose count is the greatest; 1 without words.
dominantSpeaker(tags) ==
  IF tags = << >> THEN 1
  ELSE LET best == CHOOSE i \in DOMAIN tags :
                     /\ \A j \in DOMAIN tags : countTag(tags, tags[j]) <= countTag(tags, tags[i])
                     /\ \A j \in DOMAIN tags :
                          countTag(tags, tags[j]) = countTag(tags, tags[i]) => i <= j
       IN tags[best]

\* let startTime = 0; for each word: if (startTime === 0) startTime = wordStartTime
RECURSIVE trackStart(_, _)
trackStart(starts, startTime) ==
  IF starts = << >> THEN startTime
  ELSE trackStart(Tail(starts), IF startTime = 0 THEN Head(starts) ELSE startTime)

\* let endTime = 0; for each word: endTime = wordEndTime
trackEnd(ends) == IF ends = << >> THEN 0 ELSE ends[Len(ends)]

\* GoogleSpeechService.handleStreamData: the TranscriptResult it emits, if any
handleStreamData(data) ==
  IF ~data.hasResults \/ ~data.hasAlternatives
    THEN [emitted |-> FALSE, result |-> NoResult]
  ELSE LET words == data.words
           tags == [i \in DOMAIN words |->
                      IF words[i].speakerTag = 0 THEN 1 ELSE words[i].speakerTag]
           starts == [i \in DOMAIN words |-> durationToSeconds(words[i].startTime)]
           ends == [i \in DOMAIN words |-> durationToSeconds(words[i].endTime)]
       IN [emitted |-> TRUE,
           result |-> [transcript |-> data.transcript, confidence |-> data.confidence,
                       isFinal |-> data.isFinal, speakerTag |-> dominantSpeaker(tags),
                       startTime |-> trackStart(starts, 0), endTime |-> trackEnd(ends),
                       words |-> [i \in DOMAIN words |->
                                    [speakerTag |-> tags[i], startTime |-> starts[i],
                                     endTime |-> ends[i]]]]]

\* DeepgramService.handleTranscript: the DeepgramTranscriptResult it emits, if any.
\* speaker is -1 when the word carries none.
handleTranscript(data) ==
  IF ~data.hasAlternatives \/ trim(data.transcript) = << >>
    THEN [emitted |-> FALSE, result |-> NoResult]
  ELSE LET words == data.words
           tags == [i \in DOMAIN words |->
                      (IF words[i].speaker = -1 THEN 0 ELSE words[i].speaker) + 1]
           starts == [i \in DOMAIN words |-> words[i].start]
           ends == [i \in DOMAIN words |-> words[i].end]
       IN [emitted |-> TRUE,
           result |-> [transcript |-> trim(data.transcript), confidence |-> data.confidence,
                       isFinal |-> data.isFinal, speakerTag |-> dominantSpeaker(tags),
                       startTime |-> trackStart(starts, 0), endTime |-> trackEnd(ends),
                       words |-> [i \in DOMAIN words |->
                                    [speakerTag |-> tags[i], startTime |-> starts[i],
                                     endTime |-> ends[i]]]]]

\* The transcripts the providers deliver in a run.
Transcripts ==
  { << >>,
    << " " >>,
    << "I", "'", "m", " ", "B", "o", "b" >>,
    << "4", "2" >> }

GoogleWord(tag, startTime, endTime) ==
  [speakerTag |-> tag, startTime |-> startTime, endTime |-> endTime]

\* The word lists of Google results: none; speaker 2 after an untagged word that
\* starts at 0; speakers 2 and 1 once each.
GoogleWordLists ==
  { << >>,
    << GoogleWord(0, NoDuration, Duration(0, 500000000)),
       GoogleWord(2, Duration(0, 500000000), Duration(1, 0)),
       GoogleWord(2, Duration(1, 0), Duration(1, 500000000)) >>,
    << GoogleWord(2, Duration(2, 0), Duration(2, 500000000)),
       GoogleWord(1, Duration(2, 500000000), Duration(3, 0)) >> }

GooglePayloads ==
  {[hasResults |-> FALSE, hasAlternatives |-> FALSE, isFinal |-> FALSE,
    transcript |-> << >>, confidence |-> 0, words |-> << >>]}
  \cup {[hasResults |-> TRUE, hasAlternatives |-> TRUE, isFinal |-> f, transcript |-> t,
         confidence |-> IF f THEN 90 ELSE 0, words |-> w] :
          f \in BOOLEAN, t \in Transcripts, w \in GoogleWordLists}

DeepgramWord(speaker, start, end) == [speaker |-> speaker, start |-> start, end |-> end]

DeepgramWordLists ==
  { << >>,
    << DeepgramWord(-1, 0, 500), DeepgramWord(1, 500, 1000), DeepgramWord(1, 1000, 1500) >>,
    << DeepgramWord(1, 2000, 2500), DeepgramWord(0, 2500, 3000) >> }

DeepgramPayloads ==
  {[hasAlternatives |-> FALSE, isFinal |-> FALSE, transcript |-> << >>,
    confidence |-> 0, words |-> << >>]}
  \cup {[hasAlternatives |-> TRUE, isFinal |-> f, transcript |-> t,
         confidence |-> IF f THEN 90 ELSE 0, words |-> w] :
          f \in BOOLEAN, t \in Transcripts, w \in DeepgramWordLists}

\* ------------------------------------------- gateway: handleTranscriptResult
\* mode === 'enrollment' && result.isFinal && !speakerName, and
\* validateName(extractionResult.name)
ShouldEnroll(mode, result, speakerName, extractionResult) ==
  /\ mode = "enrollment"
  /\ result.isFinal
  /\ speakerName = NoName
  /\ isValidName(extractionResult.name)

\* The save condition without the test of result.isFinal.
ShouldSaveSegment_anyResult(mode, result) ==
  mode = "transcription" /\ trim(result.transcript) # << >>

\* mode === 'transcription' && result.isFinal && result.transcript.trim()
ShouldSaveSegment(mode, result) ==
  mode = "transcription" /\ result.isFinal /\ trim(result.transcript) # << >>

\* segmentDto, and the row TranscriptionService.saveSegment creates from it
SegmentRow(id, meetingId, result, speakerName) ==
  [id |-> id, meetingId |-> meetingId, speakerTag |-> result.speakerTag,
   speakerName |-> speakerName, transcript |-> result.transcript,
   confidence |-> result.confidence, startTime |-> result.startTime,
   endTime |-> result.endTime, isFinal |-> TRUE]

\* saveSegment that appends the text to the last row of the same speaker.
saveSegment_merging(segs, row) ==
  IF segs # << >> /\ segs[Len(segs)].speakerTag = row.speakerTag
    THEN [segs EXCEPT ![Len(segs)].transcript = @ \o << " " >> \o row.transcript,
                      ![Len(segs)].endTime = row.endTime]
    ELSE Append(segs, row)

\* TranscriptionService.saveSegment: segmentRepository.save of a new row
saveSegment(segs, row) == Append(segs, row)

\* speakerMappingRepository.findOne({ where: { meetingId, speakerTag } }): the row's id, 0 if none
findOneMapping(store, meetingId, speakerTag) ==
  IF \E r \in store : r.meetingId = meetingId /\ r.speakerTag = speakerTag
    THEN (CHOOSE r \in store : r.meetingId = meetingId /\ r.speakerTag = speakerTag).id
    ELSE 0

\* save on a table without the unique key: a second row for the same key is accepted.
saveMapping_noUniqueKey(store, existing, newId, meetingId, speakerTag, speakerName) ==
  IF existing # 0 /\ \E r \in store : r.id = existing
    THEN [ok |-> TRUE,
          store |-> {IF r.id = existing THEN [r EXCEPT !.speakerName = speakerName] ELSE r :
                       r \in store}]
  ELSE [ok |-> TRUE,
        store |-> store \cup {[id |-> IF existing # 0 THEN existing ELSE newId,
                               meetingId |-> meetingId, speakerTag |-> speakerTag,
                               speakerName |-> speakerName]}]

\* speakerMappingRepository.save: updates the row found earlier, or inserts a new
\* one under UNIQUE KEY unique_meeting_speaker (meetingId, speakerTag).
saveMapping(store, existing, newId, meetingId, speakerTag, speakerName) ==
  IF existing # 0 /\ \E r \in store : r.id = existing
    THEN [ok |-> TRUE,
          store |-> {IF r.id = existing THEN [r EXCEPT !.speakerName = speakerName] ELSE r :
                       r \in store}]
  ELSE IF \E r \in store : r.meetingId = meetingId /\ r.speakerTag = speakerTag
    THEN [ok |-> FALSE, store |-> store]
  ELSE [ok |-> TRUE,
        store |-> store \cup {[id |-> IF existing # 0 THEN existing ELSE newId,
                               meetingId |-> meetingId, speakerTag |-> speakerTag,
                               speakerName |-> speakerName]}]

\* handleTranscriptResult up to its first await, for provider result number n;
\* extractionResult is extractNameFromTranscript(result.transcript).
handleResultWith(n, sid, result, session, speakerName, extractionResult) ==
  /\ handled' = handled \cup
       {[n |-> n, sid |-> sid, conn |-> session.socketId, mode |-> session.mode,
         speakerName |-> speakerName, result |-> result]}
  /\ IF ShouldEnroll(session.mode, result, speakerName, extractionResult)
       THEN /\ pendingEnroll' = pendingEnroll \cup
                 {[n |-> n, sid |-> sid, conn |-> session.socketId,
                   meetingId |-> session.meetingId, mode |-> session.mode,
                   result |-> result, name |-> extractionResult.name,
                   method |-> extractionResult.method,
                   phase |-> "findOne", existing |-> 0]}
            /\ UNCHANGED << clientEvents, pendingSaves >>
       ELSE /\ clientEvents' =
                 [clientEvents EXCEPT ![session.socketId] = @ \cup
                    {TEv("transcript", IF result.isFinal THEN "final" ELSE "interim",
                         n, result.speakerTag, speakerName)}]
            /\ pendingSaves' =
                 IF ShouldSaveSegment(session.mode, result)
                   THEN pendingSaves \cup
                          {SegmentRow(n, session.meetingId, result, speakerName)}
                   ELSE pendingSaves
            /\ UNCHANGED pendingEnroll

handleTranscriptResult(n, sid, result) ==
  handleResultWith(n, sid, result, sessionObjs[sid],
                   sessionObjs[sid].speakerMappings[result.speakerTag],
                   extractName(result.transcript))

\* A 'data' event of a recognize stream: handleStreamData, then the gateway's
\* 'transcript' listener when it is attached.
GoogleData(st, data) ==
  /\ streams[st].session # 0
  /\ ~streams[st].finished
  /\ numEvents < MaxEvents
  /\ numEvents' = numEvents + 1
  /\ LET sid == streams[st].session
         r == handleStreamData(data)
     IN IF r.emitted /\ googleSessions[sid].listeners
          THEN handleTranscriptResult(numEvents + 1, sid, r.result)
          ELSE UNCHANGED << handled, pendingEnroll, clientEvents, pendingSaves >>
  /\ UNCHANGED << envVars, requestVars, reconcileVars, jobVars, callVars,
                  streamVars, nextSid, googleSessions, streams, restartTimers,
                  deepgramSessions, sessionObjs, clientSessions, connected,
                  pendingStart, pendingStop, uncaught, speakerMappingStore,
                  nextMapId, segments >>

\* LiveTranscriptionEvents.Transcript: handleTranscript, then the gateway's
\* 'transcript' listener when it is attached.
DeepgramTranscript(sid, data) ==
  /\ deepgramSessions[sid].connection = "open"
  /\ numEvents < MaxEvents
  /\ numEvents' = numEvents + 1
  /\ LET r == handleTranscript(data)
     IN IF r.emitted /\ deepgramSessions[sid].listeners
          THEN handleTranscriptResult(numEvents + 1, sid, r.result)
          ELSE UNCHANGED << handled, pendingEnroll, clientEvents, pendingSaves >>
  /\ UNCHANGED << envVars, requestVars, reconcileVars, jobVars, callVars,
                  streamVars, nextSid, googleSessions, streams, restartTimers,
                  deepgramSessions, sessionObjs, clientSessions, connected,
                  pendingStart, pendingStop, uncaught, speakerMappingStore,
                  nextMapId, segments >>

\* saveSpeakerMapping: the findOne it awaits completes.
EnrollFind(p) ==
  /\ p \in pendingEnroll
  /\ p.phase = "findOne"
  /\ pendingEnroll' = (pendingEnroll \ {p}) \cup
       {[p EXCEPT !.phase = "save",
                  !.existing = findOneMapping(speakerMappingStore, p.meetingId,
                                              p.result.speakerTag)]}
  /\ UNCHANGED << envVars, requestVars, reconcileVars, jobVars, callVars,
                  streamVars, nextSid, googleSessions, streams, restartTimers,
                  deepgramSessions, sessionObjs, clientSessions, connected,
                  pendingStart, pendingStop, clientEvents, uncaught,
                  speakerMappingStore, nextMapId, segments, pendingSaves, numEvents,
                  handled >>

\* saveSpeakerMapping: its save completes, and handleTranscriptResult goes on:
\* the cache is updated, speakerEnrolled and transcript are emitted. A rejected
\* save leaves handleTranscriptResult as an exception.
EnrollSave(p) ==
  /\ p \in pendingEnroll
  /\ p.phase = "save"
  /\ pendingEnroll' = pendingEnroll \ {p}
  /\ LET tag == p.result.speakerTag
         saved == saveMapping(speakerMappingStore, p.existing, nextMapId, p.meetingId,
                              tag, p.name)
     IN /\ speakerMappingStore' = saved.store
        /\ nextMapId' = IF saved.ok /\ p.existing = 0 THEN nextMapId + 1 ELSE nextMapId
        /\ IF saved.ok
             THEN /\ sessionObjs' = [sessionObjs EXCEPT ![p.sid].speakerMappings[tag] = p.name]
                  /\ clientEvents' =
                       [clientEvents EXCEPT ![p.conn] = @ \cup
                          {TEv("speakerEnrolled", p.method, p.n, tag, p.name),
                           TEv("transcript", "final", p.n, tag, p.name)}]
                  /\ pendingSaves' =
                       IF ShouldSaveSegment(p.mode, p.result)
                         THEN pendingSaves \cup
                                {SegmentRow(p.n, p.meetingId, p.result, p.name)}
                         ELSE pendingSaves
                  /\ UNCHANGED uncaught
             ELSE /\ uncaught' = uncaught \cup {"saveSpeakerMapping"}
                  /\ UNCHANGED << sessionObjs, clientEvents, pendingSaves >>
  /\ UNCHANGED << envVars, requestVars, reconcileVars, jobVars, callVars,
                  streamVars, nextSid, googleSessions, streams, restartTimers,
                  deepgramSessions, clientSessions, connected, pendingStart,
                  pendingStop, segments, numEvents, handled >>

\* saveSegment: the save handleTranscriptResult awaits completes.
SaveSegmentDone(row) ==
  /\ row \in pendingSaves
  /\ pendingSaves' = pendingSaves \ {row}
  /\ segments' = saveSegment(segments, row)
  /\ UNCHANGED << envVars, requestVars, reconcileVars, jobVars, callVars,
                  streamVars, nextSid, googleSessions, streams, restartTimers,
                  deepgramSessions, sessionObjs, clientSessions, connected,
                  pendingStart, pendingStop, clientEvents, uncaught,
                  speakerMappingStore, nextMapId, pendingEnroll, numEvents, handled >>

\* The live aggregator: sessions and the provider results they receive. It leaves
\* out the clock, audio writes and stream errors, which handleTranscriptResult and
\* the stores never read.
NextAggregator ==
  \/ \E c \in Conns, m \in Meetings, mode \in Modes : StartSessionBegin(c, m, mode)
  \/ \E p \in pendingStart, ok \in BOOLEAN : StartSessionResume(p, ok)
  \/ \E sid \in Sids : DeepgramOpen(sid)
  \/ \E st \in StreamIds, data \in GooglePayloads : GoogleData(st, data)
  \/ \E sid \in Sids, data \in DeepgramPayloads : DeepgramTranscript(sid, data)
  \/ \E p \in pendingEnroll : EnrollFind(p)
  \/ \E p \in pendingEnroll : EnrollSave(p)
  \/ \E row \in pendingSaves : SaveSegmentDone(row)
  \/ \E c \in Conns : StopTranscriptionBegin(c)
  \/ \E p \in pendingStop : StopTranscriptionFinish(p)
  \/ \E c \in Conns : StopEnrollmentBegin(c)
  \/ \E p \in pendingStop : StopEnrollmentFinish(p)
  \/ \E c \in Conns : handleDisconnect(c)

SpecAggregator == Init /\ [][NextAggregator]_vars

\* ------------------------- gateway: enrollSpeaker and removeSpeakerMapping
\* The names clients send: two valid ones, one without a letter, and none.
ManualNames ==
  { << "B", "o", "b" >>, << "A", "l" >>, << "4", "2" >>, << >> }

\* What handleEnrollSpeaker does with the name before it saves anything.
EnrollOutcome_unvalidated(speakerName) ==
  IF speakerName = << >> THEN "required" ELSE "saving"

\* handleEnrollSpeaker: !speakerName, then validateName(speakerName)
EnrollOutcome(speakerName) ==
  IF speakerName = << >> THEN "required"
  ELSE IF ~isValidName(speakerName) THEN "invalid"
  ELSE "saving"

\* handleEnrollSpeaker up to its first await (saveSpeakerMapping's findOne);
\* meetingId and speakerTag are present.
EnrollSpeakerBegin(c, meetingId, speakerTag, speakerName) ==
  /\ connected[c]
  /\ numRequests < MaxRequests
  /\ numRequests' = numRequests + 1
  /\ LET n == numRequests + 1
         outcome == EnrollOutcome(speakerName)
     IN /\ lastRequest' = [n |-> n, conn |-> c, meetingId |-> meetingId,
                           speakerTag |-> speakerTag, name |-> speakerName,
                           outcome |-> outcome]
        /\ IF outcome = "saving"
             THEN /\ pendingManual' = pendingManual \cup
                       {[n |-> n, kind |-> "enroll", conn |-> c, meetingId |-> meetingId,
                         speakerTag |-> speakerTag, name |-> speakerName,
                         phase |-> "findOne", existing |-> 0, overlapped |-> FALSE]}
                  /\ UNCHANGED clientEvents
             ELSE /\ clientEvents' =
                       [clientEvents EXCEPT ![c] = @ \cup
                          {TEv("error", outcome, n, speakerTag, speakerName)}]
                  /\ UNCHANGED pendingManual
  /\ UNCHANGED << envVars, reconcileVars, jobVars, callVars,
                  streamVars, aggVars, nextSid, googleSessions,
                  streams, restartTimers, deepgramSessions, sessionObjs, clientSessions,
                  connected, pendingStart, pendingStop, uncaught, lastSave >>

\* saveSpeakerMapping called by handleEnrollSpeaker: its findOne completes.
ManualFind(p) ==
  /\ p \in pendingManual
  /\ p.kind = "enroll" /\ p.phase = "findOne"
  /\ pendingManual' = (pendingManual \ {p}) \cup
       {[p EXCEPT !.phase = "save",
                  !.existing = findOneMapping(speakerMappingStore, p.meetingId,
                                              p.speakerTag)]}
  /\ UNCHANGED << envVars, reconcileVars, jobVars, callVars,
                  streamVars, aggVars, nextSid, googleSessions,
                  streams, restartTimers, deepgramSessions, sessionObjs, clientSessions,
                  connected, pendingStart, pendingStop, clientEvents, uncaught,
                  numRequests, lastRequest, lastSave >>

\* The session cache handleEnrollSpeaker and handleRemoveSpeakerMapping update:
\* clientSessions.get(client.id), when it is a session of this meeting.
CachedSession(c, meetingId) ==
  IF clientSessions[c] # 0 /\ sessionObjs[clientSessions[c]].meetingId = meetingId
    THEN clientSessions[c]
    ELSE 0

\* q is another saveSpeakerMapping call for the (meetingId, speakerTag) of p.
SameKeySave(p, q) ==
  /\ q.kind = "enroll" /\ q.n # p.n
  /\ q.meetingId = p.meetingId /\ q.speakerTag = p.speakerTag

\* saveSpeakerMapping called by handleEnrollSpeaker: its save completes, and the
\* handler goes on: cache update and speakerEnrolled, or the catch branch's error.
\* (The broadcast to the meeting room is left out.)
ManualSave(p) ==
  /\ p \in pendingManual
  /\ p.kind = "enroll" /\ p.phase = "save"
  /\ pendingManual' =
       {IF SameKeySave(p, q) THEN [q EXCEPT !.overlapped = TRUE] ELSE q :
          q \in pendingManual \ {p}}
  /\ LET saved == saveMapping(speakerMappingStore, p.existing, nextMapId, p.meetingId,
                              p.speakerTag, p.name)
         sid == CachedSession(p.conn, p.meetingId)
     IN /\ speakerMappingStore' = saved.store
        /\ nextMapId' = IF saved.ok /\ p.existing = 0 THEN nextMapId + 1 ELSE nextMapId
        /\ lastSave' =
             [n |-> lastSave.n + 1, request |-> p.n, ok |-> saved.ok,
              concurrent |-> p.overlapped
                               \/ \E q \in pendingManual \ {p} : SameKeySave(p, q),
              stored |-> \E r \in saved.store :
                           /\ r.meetingId = p.meetingId /\ r.speakerTag = p.speakerTag
                           /\ r.speakerName = p.name,
              name |-> p.name]
        /\ sessionObjs' =
             IF saved.ok /\ sid # 0
               THEN [sessionObjs EXCEPT ![sid].speakerMappings[p.speakerTag] = p.name]
               ELSE sessionObjs
        /\ clientEvents' =
             [clientEvents EXCEPT ![p.conn] = @ \cup
                {IF saved.ok THEN TEv("speakerEnrolled", "manual", p.n, p.speakerTag, p.name)
                             ELSE TEv("error", "failed", p.n, p.speakerTag, p.name)}]
  /\ UNCHANGED << envVars, reconcileVars, jobVars, callVars,
                  streamVars, nextSid, googleSessions, streams,
                  restartTimers, deepgramSessions, clientSessions, connected,
                  pendingStart, pendingStop, uncaught, segments, pendingSaves,
                  pendingEnroll, numEvents, handled, numRequests, lastRequest >>

\* handleRemoveSpeakerMapping up to its await; meetingId and speakerTag are present.
RemoveSpeakerMappingBegin(c, meetingId, speakerTag) ==
  /\ connected[c]
  /\ numRequests < MaxRequests
  /\ numRequests' = numRequests + 1
  /\ pendingManual' = pendingManual \cup
       {[n |-> numRequests + 1, kind |-> "remove", conn |-> c, meetingId |-> meetingId,
         speakerTag |-> speakerTag, name |-> << >>, phase |-> "delete", existing |-> 0,
         overlapped |-> FALSE]}
  /\ UNCHANGED << envVars, reconcileVars, jobVars, callVars,
                  streamVars, aggVars, nextSid, googleSessions,
                  streams, restartTimers, deepgramSessions, sessionObjs, clientSessions,
                  connected, pendingStart, pendingStop, clientEvents, uncaught,
                  lastRequest, lastSave >>

\* SpeakerEnrollmentService.removeSpeakerMapping: repository.delete({ meetingId, speakerTag })
removeSpeakerMapping(store, meetingId, speakerTag) ==
  {r \in store : ~(r.meetingId = meetingId /\ r.speakerTag = speakerTag)}

\* handleRemoveSpeakerMapping after the await: cache update and speakerMappingRemoved.
\* (The broadcast to the meeting room is left out.)
RemoveSpeakerMappingFinish(p) ==
  /\ p \in pendingManual
  /\ p.kind = "remove"
  /\ pendingManual' = pendingManual \ {p}
  /\ speakerMappingStore' = removeSpeakerMapping(speakerMappingStore, p.meetingId, p.speakerTag)
  /\ LET sid == CachedSession(p.conn, p.meetingId)
     IN sessionObjs' =
          IF sid # 0
            THEN [sessionObjs EXCEPT ![sid].speakerMappings[p.speakerTag] = NoName]
            ELSE sessionObjs
  /\ clientEvents' =
       [clientEvents EXCEPT ![p.conn] = @ \cup
          {TEv("speakerMappingRemoved", "", p.n, p.speakerTag, NoName)}]
  /\ UNCHANGED << envVars, reconcileVars, jobVars, callVars,
                  streamVars, nextSid, googleSessions, streams,
                  restartTimers, deepgramSessions, clientSessions, connected,
                  pendingStart, pendingStop, uncaught, nextMapId, segments,
                  pendingSaves, pendingEnroll, numEvents, handled, numRequests,
                  lastRequest, lastSave >>

\* The results an enrollment session receives in a run of the enrollment
\* specification: FINAL results of one speaker, with a name and without.
EnrollmentPayloads ==
  {d \in GooglePayloads :
     /\ d.hasResults /\ d.isFinal /\ d.words = << >>
     /\ d.transcript \in {<< "I", "'", "m", " ", "B", "o", "b" >>, << "4", "2" >>}}

\* Enrollment: one Google enrollment session with its automatic enrollments,
\* and the enrollSpeaker and removeSpeakerMapping requests of the client.
InitEnrollment == Init /\ googleAvailable /\ ~deepgramAvailable

NextEnrollment ==
  \/ \E c \in Conns, m \in Meetings : StartSessionBegin(c, m, "enrollment")
  \/ \E p \in pendingStart : StartSessionResume(p, TRUE)
  \/ \E st \in StreamIds, data \in EnrollmentPayloads : GoogleData(st, data)
  \/ \E p \in pendingEnroll : EnrollFind(p)
  \/ \E p \in pendingEnroll : EnrollSave(p)
  \/ \E c \in Conns, m \in Meetings, t \in Tags, name \in ManualNames :
       EnrollSpeakerBegin(c, m, t, name)
  \/ \E p \in pendingManual : ManualFind(p)
  \/ \E p \in pendingManual : ManualSave(p)
  \/ \E c \in Conns, m \in Meetings, t \in Tags : RemoveSpeakerMappingBegin(c, m, t)
  \/ \E p \in pendingManual : RemoveSpeakerMappingFinish(p)

SpecEnrollment == InitEnrollment /\ [][NextEnrollment]_vars

\* ------------------------------- BatchDiarizationService: the reconciler
\* UTF-16 code units of the characters of the span labels: Array.prototype.sort
\* without a comparator orders strings by them.
CodeUnit(c) ==
  CASE c = "0" -> 48 [] c = "1" -> 49
    [] c = "A" -> 65 [] c = "E" -> 69 [] c = "G" -> 71 [] c = "K" -> 75
    [] c = "P" -> 80 [] c = "R" -> 82 [] c = "S" -> 83 [] c = "T" -> 84
    [] c = "U" -> 85 [] c = "_" -> 95

\* a < b as strings
RECURSIVE LabelLess(_, _)
LabelLess(a, b) ==
  IF b = << >> THEN FALSE
  ELSE IF a = << >> THEN TRUE
  ELSE IF Head(a) # Head(b) THEN CodeUnit(Head(a)) < CodeUnit(Head(b))
  ELSE LabelLess(Tail(a), Tail(b))

\* [...new Set(pyannoteSpeakers.map(s => s.speaker))].sort()
RECURSIVE sortLabels(_)
sortLabels(labels) ==
  IF labels = {} THEN << >>
  ELSE LET least == CHOOSE x \in labels : \A y \in labels : x = y \/ LabelLess(x, y)
       IN << least >> \o sortLabels(labels \ {least})

uniqueSpeakers(pyannoteSpeakers) ==
  sortLabels({pyannoteSpeakers[i].speaker : i \in DOMAIN pyannoteSpeakers})

\* speakerMap.get(assignedSpeaker) || 1, speakerMap being label -> index + 1
speakerMapGet(sorted, assignedSpeaker) ==
  IF \E i \in DOMAIN sorted : sorted[i] = assignedSpeaker
    THEN CHOOSE i \in DOMAIN sorted : sorted[i] = assignedSpeaker
    ELSE 1

\* 'SPEAKER_00', the label a segment keeps when no span contains its midpoint
SPEAKER_00 == << "S", "P", "E", "A", "K", "E", "R", "_", "0", "0" >>

\* The test with the end of the span excluded.
spanContains_halfOpen(ps, segment) ==
  /\ 2 * ps.start <= segment.startTime + segment.endTime
  /\ segment.startTime + segment.endTime < 2 * ps.end

\* ps.start <= segmentMid && segmentMid <= ps.end, with
\* segmentMid = (segment.startTime + segment.endTime) / 2; both sides are doubled
\* to stay in the integers.
spanContains(ps, segment) ==
  /\ 2 * ps.start <= segment.startTime + segment.endTime
  /\ segment.startTime + segment.endTime <= 2 * ps.end

\* for (const ps of pyannoteSpeakers) { if (...) { assignedSpeaker = ps.speaker; break; } }
RECURSIVE assignedSpeaker(_, _)
assignedSpeaker(pyannoteSpeakers, segment) ==
  IF pyannoteSpeakers = << >> THEN SPEAKER_00
  ELSE IF spanContains(Head(pyannoteSpeakers), segment) THEN Head(pyannoteSpeakers).speaker
  ELSE assignedSpeaker(Tail(pyannoteSpeakers), segment)

\* segmentsWithSpeakers
assignSpeakers(segs, pyannoteSpeakers) ==
  [i \in DOMAIN segs |->
     [segs[i] EXCEPT !.speakerTag =
        speakerMapGet(uniqueSpeakers(pyannoteSpeakers),
                      assignedSpeaker(pyannoteSpeakers, segs[i]))]]

Min(a, b) == IF a <= b THEN a ELSE b

\* the object the merge loop starts for a segment
MergedOf(segment) ==
  [speakerTag |-> segment.speakerTag, transcript |-> segment.transcript,
   startTime |-> segment.startTime, endTime |-> segment.endTime,
   confidence |-> segment.confidence]

\* The loop that starts a new merged segment for every segment.
RECURSIVE mergeLoop_unmerged(_, _, _, _)
mergeLoop_unmerged(segs, hasCurrent, current, mergedSegments) ==
  IF segs = << >>
    THEN IF hasCurrent THEN Append(mergedSegments, current) ELSE mergedSegments
  ELSE mergeLoop_unmerged(Tail(segs), TRUE, MergedOf(Head(segs)),
                          IF hasCurrent THEN Append(mergedSegments, current)
                                        ELSE mergedSegments)

\* The loop that keeps the confidence of the run's first segment.
RECURSIVE mergeLoop_firstConfidence(_, _, _, _)
mergeLoop_firstConfidence(segs, hasCurrent, current, mergedSegments) ==
  IF segs = << >>
    THEN IF hasCurrent THEN Append(mergedSegments, current) ELSE mergedSegments
  ELSE LET segment == Head(segs) IN
       IF ~hasCurrent
         THEN mergeLoop_firstConfidence(Tail(segs), TRUE, MergedOf(segment), mergedSegments)
       ELSE IF segment.speakerTag = current.speakerTag
         THEN mergeLoop_firstConfidence(Tail(segs), TRUE,
                [current EXCEPT !.transcript = @ \o << " " >> \o segment.transcript,
                                !.endTime = segment.endTime],
                mergedSegments)
       ELSE mergeLoop_firstConfidence(Tail(segs), TRUE, MergedOf(segment),
                                      Append(mergedSegments, current))

\* for (const segment of segmentsWithSpeakers) { ... }  if (current) push(current)
RECURSIVE mergeLoop(_, _, _, _)
mergeLoop(segs, hasCurrent, current, mergedSegments) ==
  IF segs = << >>
    THEN IF hasCurrent THEN Append(mergedSegments, current) ELSE mergedSegments
  ELSE LET segment == Head(segs) IN
       IF ~hasCurrent
         THEN mergeLoop(Tail(segs), TRUE, MergedOf(segment), mergedSegments)
       ELSE IF segment.speakerTag = current.speakerTag
         THEN mergeLoop(Tail(segs), TRUE,
                [current EXCEPT !.transcript = @ \o << " " >> \o segment.transcript,
                                !.endTime = segment.endTime,
                                !.confidence = Min(@, segment.confidence)],
                mergedSegments)
       ELSE mergeLoop(Tail(segs), TRUE, MergedOf(segment),
                      Append(mergedSegments, current))

mergeSegments(segmentsWithSpeakers) ==
  mergeLoop(segmentsWithSpeakers, FALSE, MergedOf(NoResult), << >>)

\* segmentRepository.create({ id: uuidv4(), meetingId, ..., isFinal: true })
MergedRow(id, meetingId, segment) ==
  [id |-> id, meetingId |-> meetingId, speakerTag |-> segment.speakerTag,
   speakerName |-> NoName, transcript |-> segment.transcript,
   confidence |-> segment.confidence, startTime |-> segment.startTime,
   endTime |-> segment.endTime, isFinal |-> TRUE]

\* find({ where, order: { startTime: 'ASC' } }): the rows in an order of
\* ascending startTime; rows of equal startTime come in any order.
SortedByStart(rows) ==
  {s \in [1 .. Cardinality(rows) -> rows] :
     /\ \A i, j \in DOMAIN s : i < j => (s[i] # s[j] /\ s[i].startTime <= s[j].startTime)}

MeetingRows(meetingId, onlyFinal) ==
  {segments[i] : i \in {j \in DOMAIN segments :
                          /\ segments[j].meetingId = meetingId
                          /\ onlyFinal => segments[j].isFinal}}

\* processAudioFile: existingSegments are read, and there are some.
ReconcileRead(meetingId, existingSegments) ==
  /\ recon.phase = "idle"
  /\ existingSegments \in SortedByStart(MeetingRows(meetingId, FALSE))
  /\ Len(existingSegments) > 0
  /\ recon' = [NoRecon EXCEPT !.phase = "diarizing", !.meetingId = meetingId,
                              !.pre = existingSegments]
  /\ UNCHANGED << envVars, requestVars, streamVars, aggVars, nextSid, googleSessions,
                  streams, restartTimers, deepgramSessions, sessionObjs, clientSessions,
                  connected, pendingStart, pendingStop, clientEvents, uncaught,
                  lastRead, jobVars, callVars >>

\* assignSpeakersAndMergeSegments up to its first await: the diarization result
\* has arrived, speakers are assigned, segments merged, and the delete is issued.
ReconcileMerge(pyannoteSpeakers) ==
  /\ recon.phase = "diarizing"
  /\ LET tagged == assignSpeakers(recon.pre, pyannoteSpeakers)
     IN recon' = [recon EXCEPT !.phase = "deleting", !.spans = pyannoteSpeakers,
                               !.tagged = tagged, !.merged = mergeSegments(tagged)]
  /\ UNCHANGED << envVars, requestVars, streamVars, aggVars, nextSid, googleSessions,
                  streams, restartTimers, deepgramSessions, sessionObjs, clientSessions,
                  connected, pendingStart, pendingStop, clientEvents, uncaught,
                  lastRead, jobVars, callVars >>

\* segmentRepository.delete({ meetingId }) completes.
ReconcileDelete ==
  /\ recon.phase = "deleting"
  /\ segments' = SelectSeq(segments, LAMBDA row : row.meetingId # recon.meetingId)
  /\ recon' = [recon EXCEPT !.phase = IF Len(recon.merged) = 0 THEN "done" ELSE "inserting"]
  /\ UNCHANGED << envVars, requestVars, streamVars, nextSid, googleSessions, streams,
                  restartTimers, deepgramSessions, sessionObjs, clientSessions,
                  connected, pendingStart, pendingStop, clientEvents, uncaught,
                  speakerMappingStore, nextMapId, pendingSaves, pendingEnroll,
                  numEvents, handled, lastRead, jobVars, callVars >>

\* The id of the next row the reconciler creates (uuidv4()): above the ids of the
\* rows it read and of the rows it has inserted.
ReconcileRowId == Len(recon.pre) + recon.inserted + 1

\* segmentRepository.save(newSegment) of the next merged segment completes; when
\* it rejects, assignSpeakersAndMergeSegments ends with the exception.
ReconcileInsert(ok) ==
  /\ recon.phase = "inserting"
  /\ IF ok
       THEN /\ segments' = Append(segments,
                                  MergedRow(ReconcileRowId, recon.meetingId,
                                            recon.merged[recon.inserted + 1]))
            /\ recon' = [recon EXCEPT
                           !.inserted = @ + 1,
                           !.phase = IF recon.inserted + 1 = Len(recon.merged)
                                       THEN "done" ELSE "inserting"]
       ELSE /\ recon' = [recon EXCEPT !.phase = "failed"]
            /\ UNCHANGED segments
  /\ UNCHANGED << envVars, requestVars, streamVars, nextSid, googleSessions, streams,
                  restartTimers, deepgramSessions, sessionObjs, clientSessions,
                  connected, pendingStart, pendingStop, clientEvents, uncaught,
                  speakerMappingStore, nextMapId, pendingSaves, pendingEnroll,
                  numEvents, handled, lastRead, jobVars, callVars >>

\* getFinalSegmentsByMeeting, as handleGetTranscript and generateFullTranscript call it.
getFinalSegmentsByMeeting(meetingId, rows) ==
  /\ lastRead.n < MaxReads
  /\ rows \in SortedByStart(MeetingRows(meetingId, TRUE))
  /\ lastRead' = [n |-> lastRead.n + 1, rows |-> rows, phase |-> recon.phase]
  /\ UNCHANGED << envVars, requestVars, streamVars, aggVars, nextSid, googleSessions,
                  streams, restartTimers, deepgramSessions, sessionObjs, clientSessions,
                  connected, pendingStart, pendingStop, clientEvents, uncaught, recon,
                  jobVars, callVars >>

\* The runs the merge loop forms in segmentsWithSpeakers: a run starts at the
\* first segment and wherever the speakerTag differs from the segment before.
RunStarts(segs) ==
  {i \in DOMAIN segs : i = 1 \/ segs[i].speakerTag # segs[i - 1].speakerTag}

\* the last position of the run that starts at i
RunEnd(segs, i) ==
  CHOOSE j \in i .. Len(segs) :
    /\ \A k \in i .. j : k + 1 \in RunStarts(segs) => k = j
    /\ j = Len(segs) \/ j + 1 \in RunStarts(segs)

\* the position in mergedSegments of the run that starts at i
RunIndex(segs, i) == Cardinality({j \in RunStarts(segs) : j <= i})

\* the transcripts of segs[i .. j], each two joined by ' '
RECURSIVE joinTranscripts(_, _, _)
joinTranscripts(segs, i, j) ==
  IF i >= j THEN segs[i].transcript
  ELSE segs[i].transcript \o << " " >> \o joinTranscripts(segs, i + 1, j)

\* the spans whose closed interval holds the midpoint of the segment
SpansAtMidpoint(pyannoteSpeakers, segment) ==
  {j \in DOMAIN pyannoteSpeakers :
     /\ 2 * pyannoteSpeakers[j].start <= segment.startTime + segment.endTime
     /\ segment.startTime + segment.endTime <= 2 * pyannoteSpeakers[j].end}

\* the 1-based position of a label among the sorted distinct labels of the spans
LabelRank(pyannoteSpeakers, label) ==
  1 + Cardinality({l \in {pyannoteSpeakers[j].speaker : j \in DOMAIN pyannoteSpeakers} :
                     LabelLess(l, label)})

\* the reconciler has computed its merged list
Reconciled == recon.phase \in {"deleting", "inserting", "done", "failed"}

\* what rows say, whatever their ids are
ContentSet(rows) == {MergedOf(rows[i]) : i \in DOMAIN rows}

\* The label of a span, and the spans the diarization service returns.
GUEST == << "G", "U", "E", "S", "T" >>
SPEAKER_01 == << "S", "P", "E", "A", "K", "E", "R", "_", "0", "1" >>

SpanLabels == {SPEAKER_00, SPEAKER_01, GUEST}

PyannoteSegment(speaker, start, end) == [speaker |-> speaker, start |-> start, end |-> end]

SpanChoices ==
  {PyannoteSegment(l, t[1], t[2]) : l \in SpanLabels, t \in {<< 0, 2 >>, << 2, 3 >>}}

SpanLists ==
  UNION {[1 .. n -> SpanChoices] : n \in 0 .. MaxSpans}

\* The segments live transcription left for the meeting: saved in the order of
\* their times, with the texts "a", "b", "c", ... in that order.
SegmentTimes == {<< 0, 1 >>, << 1, 3 >>, << 2, 4 >>, << 4, 4 >>}

SegmentTexts == << "a", "b", "c", "d", "e", "f" >>

LiveSegmentLists ==
  UNION {
    {[i \in 1 .. n |->
        [id |-> i, meetingId |-> "m1", speakerTag |-> 1, speakerName |-> NoName,
         transcript |-> << SegmentTexts[i] >>, confidence |-> c[i],
         startTime |-> t[i][1], endTime |-> t[i][2], isFinal |-> TRUE]] :
       t \in {u \in [1 .. n -> SegmentTimes] :
                \A i, j \in 1 .. n : i < j => u[i][1] <= u[j][1]},
       c \in [1 .. n -> {40, 90}]} :
    n \in 0 .. MaxSegments}

\* The state after the recording of a meeting has ended: no live session is
\* left, and the meeting has the segments of its live transcription.
InitReconcile ==
  /\ deepgramAvailable = FALSE
  /\ googleAvailable = FALSE
  /\ now = 0
  /\ nextSid = 1
  /\ googleSessions = [s \in Sids |-> NoGoogleSession]
  /\ streams = [i \in StreamIds |-> NoStream]
  /\ restartTimers = [s \in Sids |-> 0]
  /\ deepgramSessions = [s \in Sids |-> NoDeepgramSession]
  /\ sessionObjs = [s \in Sids |-> NoClientSession]
  /\ clientSessions = [c \in Conns |-> 0]
  /\ connected = [c \in Conns |-> TRUE]
  /\ pendingStart = {}
  /\ pendingStop = {}
  /\ clientEvents = [c \in Conns |-> {}]
  /\ uncaught = {}
  /\ numErrors = 0
  /\ lastError = NoError
  /\ lastWrite = NoWrite
  /\ speakerMappingStore = {}
  /\ nextMapId = 1
  /\ segments \in LiveSegmentLists
  /\ pendingSaves = {}
  /\ pendingEnroll = {}
  /\ numEvents = 0
  /\ handled = {}
  /\ pendingManual = {}
  /\ numRequests = 0
  /\ lastRequest = NoRequest
  /\ lastSave = NoSave
  /\ recon = NoRecon
  /\ lastRead = NoRead
  /\ job = NoJob
  /\ meetingStatus = "processing"
  /\ extraction = NoExtraction
  /\ validation = NoValidation

NextReconcile ==
  \/ \E m \in Meetings : \E rows \in SortedByStart(MeetingRows(m, FALSE)) :
       ReconcileRead(m, rows)
  \/ \E spans \in SpanLists : ReconcileMerge(spans)
  \/ ReconcileDelete
  \/ \E ok \in BOOLEAN : ReconcileInsert(ok)
  \/ \E m \in Meetings : \E rows \in SortedByStart(MeetingRows(m, TRUE)) :
       getFinalSegmentsByMeeting(m, rows)

SpecReconcile == InitReconcile /\ [][NextReconcile]_vars

\* ------------------------------- BatchDiarizationService: processAudioFile
\* The variables processAudioFile neither reads nor writes, but for the store of
\* speaker mappings, which it reads.
otherVars ==
  << envVars, requestVars, streamVars, nextSid, googleSessions, streams, restartTimers,
     deepgramSessions, sessionObjs, clientSessions, connected, pendingStart,
     pendingStop, clientEvents, uncaught, speakerMappingStore, nextMapId,
     pendingSaves, pendingEnroll, numEvents, handled, lastRead, callVars >>

\* the rows of the meeting, in the order of the table
RowsOf(meetingId) == SelectSeq(segments, LAMBDA row : row.meetingId = meetingId)

\* GoogleSpeechService.transcribeFile, words branch: the loop that groups the
\* words of the last result by speaker; confidence is alternative.confidence || 0.
RECURSIVE groupWords(_, _, _, _, _)
groupWords(words, hasCurrent, currentSegment, confidence, segs) ==
  LET pushed == IF hasCurrent
                  THEN Append(segs, [transcript |-> join(currentSegment.words),
                                     speakerTag |-> currentSegment.speakerTag,
                                     startTime |-> currentSegment.startTime,
                                     endTime |-> currentSegment.endTime,
                                     confidence |-> confidence])
                  ELSE segs
  IN IF words = << >> THEN pushed
     ELSE LET wordInfo == Head(words)
              speakerTag == IF wordInfo.speakerTag = 0 THEN 1 ELSE wordInfo.speakerTag
              startTime == durationToSeconds(wordInfo.startTime)
              endTime == durationToSeconds(wordInfo.endTime)
          IN IF ~hasCurrent \/ currentSegment.speakerTag # speakerTag
               THEN groupWords(Tail(words), TRUE,
                               [words |-> << wordInfo.word >>, speakerTag |-> speakerTag,
                                startTime |-> startTime, endTime |-> endTime],
                               confidence, pushed)
               ELSE groupWords(Tail(words), TRUE,
                               [currentSegment EXCEPT !.words = Append(@, wordInfo.word),
                                                      !.endTime = endTime],
                               confidence, segs)

\* GoogleSpeechService.transcribeFile, branch without word-level info: one
\* segment per result that has a transcript
RECURSIVE segmentsOfResults(_)
segmentsOfResults(results) ==
  IF results = << >> THEN << >>
  ELSE (IF Head(results).transcript # << >>
          THEN << [transcript |-> Head(results).transcript, speakerTag |-> 1,
                   startTime |-> 0, endTime |-> 0,
                   confidence |-> Head(results).confidence] >>
          ELSE << >>)
       \o segmentsOfResults(Tail(results))

\* GoogleSpeechService.transcribeFile: the segments of a response whose results
\* have one alternative each
transcribeFile(results) ==
  IF results = << >> THEN << >>
  ELSE LET alternative == results[Len(results)]
       IN IF alternative.words # << >>
            THEN groupWords(alternative.words, FALSE,
                            [words |-> << >>, speakerTag |-> 0, startTime |-> 0,
                             endTime |-> 0],
                            alternative.confidence, << >>)
            ELSE segmentsOfResults(results)

\* processAudioFile: diarizedSegments (the label speaker is left out: nothing reads it)
diarizedSegments(segs) ==
  [i \in DOMAIN segs |-> [segs[i] EXCEPT !.transcript = trim(@)]]

\* mergeConsecutiveSpeakerSegments: the loop from the second segment on
RECURSIVE mergeConsecutiveLoop(_, _, _)
mergeConsecutiveLoop(segs, current, merged) ==
  IF segs = << >> THEN Append(merged, current)
  ELSE LET segment == Head(segs) IN
       IF segment.speakerTag = current.speakerTag
         THEN mergeConsecutiveLoop(Tail(segs),
                [current EXCEPT !.transcript = @ \o << " " >> \o segment.transcript,
                                !.endTime = segment.endTime],
                merged)
         ELSE mergeConsecutiveLoop(Tail(segs), segment, Append(merged, current))

\* BatchDiarizationService.mergeConsecutiveSpeakerSegments
mergeConsecutiveSpeakerSegments(segs) ==
  IF segs = << >> THEN << >>
  ELSE mergeConsecutiveLoop(Tail(segs), Head(segs), << >>)

\* updateTranscriptSegments: segmentRepository.create({ id: uuidv4(), ... }), with
\* speakerName = speakerMappings.get(segment.speakerTag)
BatchRow(id, meetingId, segment, speakerMappings) ==
  [id |-> id, meetingId |-> meetingId, speakerTag |-> segment.speakerTag,
   speakerName |-> IF segment.speakerTag \in DOMAIN speakerMappings
                     THEN speakerMappings[segment.speakerTag] ELSE NoName,
   transcript |-> segment.transcript, confidence |-> segment.confidence,
   startTime |-> segment.startTime, endTime |-> segment.endTime, isFinal |-> TRUE]

\* The catch of diarError that ends the job.
afterDiarError_abort(j) == [j EXCEPT !.phase = "status", !.target = "failed"]

\* catch (diarError): logged, and processAudioFile goes on to the summarization
afterDiarError(j) == [j EXCEPT !.phase = "summary"]

\* The catch of summaryError that ends the job.
afterSummaryError_abort(j) == [j EXCEPT !.phase = "status", !.target = "failed"]

\* catch (summaryError): logged, and processAudioFile goes on to
\* updateMeetingStatus(meetingId, 'completed')
afterSummaryError(j) == [j EXCEPT !.phase = "status", !.target = "completed"]

\* catch (error) of processAudioFile: updateMeetingStatus(meetingId, 'failed')
afterError(j, what) == [j EXCEPT !.phase = "status", !.target = "failed", !.failure = what]

\* processAudioFile is called and its find returns: the branch is chosen. The
\* recording is a .wav file, so that nothing is converted.
ProcessAudioFileBegin(meetingId, existingSegments) ==
  /\ job.phase \in {"idle", "finished"}
  /\ job.run < MaxRuns
  /\ existingSegments \in SortedByStart(MeetingRows(meetingId, FALSE))
  /\ LET j == [NoJob EXCEPT !.meetingId = meetingId, !.run = job.run + 1,
                            !.rewrites = job.rewrites,
                            !.diarizationServiceUrl = job.diarizationServiceUrl,
                            !.before = RowsOf(meetingId)]
     IN IF Len(existingSegments) > 0
          THEN IF job.diarizationServiceUrl
                 THEN /\ job' = [j EXCEPT !.phase = "reconcile", !.path = "reconcile"]
                      /\ recon' = [NoRecon EXCEPT !.phase = "diarizing",
                                                  !.meetingId = meetingId,
                                                  !.pre = existingSegments]
                 ELSE /\ job' = [j EXCEPT !.phase = "summary", !.path = "keep"]
                      /\ recon' = NoRecon
          ELSE /\ recon' = NoRecon
               /\ job' = IF googleAvailable
                           THEN [j EXCEPT !.phase = "transcribing", !.path = "wholeFile"]
                           ELSE [j EXCEPT !.phase = "status", !.path = "none",
                                          !.target = "completed"]
  /\ UNCHANGED << otherVars, segments, meetingStatus >>

\* callPyannoteDiarization throws: fetch rejects, or the response is not ok.
DiarizationFails ==
  /\ job.phase = "reconcile"
  /\ recon.phase = "diarizing"
  /\ recon' = [recon EXCEPT !.phase = "skipped"]
  /\ job' = afterDiarError([job EXCEPT !.failure = "diarization"])
  /\ UNCHANGED << otherVars, segments, meetingStatus >>

\* segmentRepository.delete({ meetingId }) of the reconciler rejects.
ReconcileDeleteFails ==
  /\ job.phase = "reconcile"
  /\ recon.phase = "deleting"
  /\ recon' = [recon EXCEPT !.phase = "failed"]
  /\ UNCHANGED << otherVars, segments, jobVars >>

\* assignSpeakersAndMergeSegments has returned or thrown: processAudioFile goes
\* on after its try block.
ReconcileReturns ==
  /\ job.phase = "reconcile"
  /\ recon.phase \in {"done", "failed"}
  /\ job' = IF recon.phase = "done"
              THEN [job EXCEPT !.phase = "summary", !.rewrites = @ + 1]
              ELSE afterDiarError([job EXCEPT !.failure = "persist"])
  /\ UNCHANGED << otherVars, segments, recon, meetingStatus >>

\* summarizationService.isAvailable() and, when it is, processPostMeeting, which
\* reads the segments: outcome is "unavailable", "ok" or "failed".
Summarize(outcome) ==
  /\ job.phase = "summary"
  /\ LET j == [job EXCEPT !.summary = outcome, !.atSummary = RowsOf(job.meetingId)]
     IN job' = IF outcome = "failed"
                 THEN afterSummaryError(j)
                 ELSE [j EXCEPT !.phase = "status", !.target = "completed"]
  /\ UNCHANGED << otherVars, segments, recon, meetingStatus >>

\* updateMeetingStatus: meetingRepository.update(meetingId, { status })
updateMeetingStatus ==
  /\ job.phase = "status"
  /\ meetingStatus' = job.target
  /\ job' = [job EXCEPT !.phase = "finished"]
  /\ UNCHANGED << otherVars, segments, recon >>

\* googleSpeechService.transcribeFile returns the segments of a response, or throws.
TranscribeDone(ok, results) ==
  /\ job.phase = "transcribing"
  /\ job' = IF ~ok THEN afterError(job, "transcribe")
            ELSE LET segs == diarizedSegments(transcribeFile(results))
                 IN IF Len(segs) = 0
                      THEN [job EXCEPT !.phase = "status", !.target = "completed"]
                      ELSE [job EXCEPT !.phase = "mappings", !.batch = segs]
  /\ UNCHANGED << otherVars, segments, recon, meetingStatus >>

\* getSpeakerMappings returns; updateTranscriptSegments merges and issues its delete.
UpdateTranscriptSegmentsBegin ==
  /\ job.phase = "mappings"
  /\ job' = [job EXCEPT !.phase = "batchDelete",
                        !.merged = mergeConsecutiveSpeakerSegments(job.batch)]
  /\ UNCHANGED << otherVars, segments, recon, meetingStatus >>

\* updateTranscriptSegments: segmentRepository.delete({ meetingId }) completes or rejects.
BatchDelete(ok) ==
  /\ job.phase = "batchDelete"
  /\ IF ok
       THEN /\ segments' = SelectSeq(segments, LAMBDA row : row.meetingId # job.meetingId)
            /\ job' = [job EXCEPT !.phase = "batchInsert"]
       ELSE /\ job' = afterError(job, "persist")
            /\ UNCHANGED segments
  /\ UNCHANGED << otherVars, recon, meetingStatus >>

\* updateTranscriptSegments: segmentRepository.save of the next merged segment
\* completes or rejects.
BatchInsert(ok) ==
  /\ job.phase = "batchInsert"
  /\ IF ok
       THEN /\ segments' =
                 Append(segments,
                        BatchRow(job.inserted + 1, job.meetingId,
                                 job.merged[job.inserted + 1],
                                 getSpeakerMappings(speakerMappingStore, job.meetingId)))
            /\ job' = [job EXCEPT !.inserted = @ + 1,
                                  !.phase = IF job.inserted + 1 = Len(job.merged)
                                              THEN "summary" ELSE "batchInsert"]
       ELSE /\ job' = afterError(job, "persist")
            /\ UNCHANGED segments
  /\ UNCHANGED << otherVars, recon, meetingStatus >>

\* A word of a recognize response, and the responses of a run: no result; one
\* result with words of speakers 1 (untagged at first) and 2; one with words of
\* speakers 2, 1, 2; two results without words.
BatchWord(word, tag, startTime, endTime) ==
  [word |-> << word >>, speakerTag |-> tag, startTime |-> startTime, endTime |-> endTime]

BatchResult(transcript, confidence, words) ==
  [transcript |-> transcript, confidence |-> confidence, words |-> words]

BatchResponses ==
  { << >>,
    << BatchResult(<< "a", " ", "b", " ", "c" >>, 90,
                   << BatchWord("a", 0, NoDuration, Duration(1, 0)),
                      BatchWord("b", 1, Duration(1, 0), Duration(2, 0)),
                      BatchWord("c", 2, Duration(2, 0), Duration(3, 0)) >>) >>,
    << BatchResult(<< "a", " ", "b", " ", "c" >>, 40,
                   << BatchWord("a", 2, NoDuration, Duration(1, 0)),
                      BatchWord("b", 1, Duration(1, 0), Duration(2, 0)),
                      BatchWord("c", 2, Duration(2, 0), Duration(3, 0)) >>) >>,
    << BatchResult(<< "a" >>, 90, << >>), BatchResult(<< " ", "b" >>, 40, << >>) >>,
    << BatchResult(<< >>, 0, << >>) >> }

\* The spans of a diarization result in a run of the job: two spans of two speakers.
JobSpans ==
  {spans \in SpanLists :
     /\ Len(spans) = MaxSpans
     /\ spans[1].speaker = SPEAKER_00
     /\ \A i \in 2 .. Len(spans) : spans[i].speaker = SPEAKER_01}

\* The state when the recording of a meeting has ended: the meeting is being
\* processed and has no segment or MaxSegments segments of its live transcription.
InitPostProcess ==
  /\ deepgramAvailable = FALSE
  /\ googleAvailable \in BOOLEAN
  /\ now = 0
  /\ nextSid = 1
  /\ googleSessions = [s \in Sids |-> NoGoogleSession]
  /\ streams = [i \in StreamIds |-> NoStream]
  /\ restartTimers = [s \in Sids |-> 0]
  /\ deepgramSessions = [s \in Sids |-> NoDeepgramSession]
  /\ sessionObjs = [s \in Sids |-> NoClientSession]
  /\ clientSessions = [c \in Conns |-> 0]
  /\ connected = [c \in Conns |-> TRUE]
  /\ pendingStart = {}
  /\ pendingStop = {}
  /\ clientEvents = [c \in Conns |-> {}]
  /\ uncaught = {}
  /\ numErrors = 0
  /\ lastError = NoError
  /\ lastWrite = NoWrite
  /\ speakerMappingStore \in
       {{}, {[id |-> 1, meetingId |-> "m1", speakerTag |-> 1,
              speakerName |-> << "B", "o", "b" >>]}}
  /\ nextMapId = 2
  /\ segments \in {s \in LiveSegmentLists :
                     /\ Len(s) \in {0, MaxSegments}
                     /\ \A i \in DOMAIN s : s[i].confidence = 90}
  /\ pendingSaves = {}
  /\ pendingEnroll = {}
  /\ numEvents = 0
  /\ handled = {}
  /\ pendingManual = {}
  /\ numRequests = 0
  /\ lastRequest = NoRequest
  /\ lastSave = NoSave
  /\ recon = NoRecon
  /\ lastRead = NoRead
  /\ job \in {[NoJob EXCEPT !.diarizationServiceUrl = u] : u \in BOOLEAN}
  /\ meetingStatus = "processing"
  /\ extraction = NoExtraction
  /\ validation = NoValidation

NextPostProcess ==
  \/ \E m \in Meetings : \E rows \in SortedByStart(MeetingRows(m, FALSE)) :
       ProcessAudioFileBegin(m, rows)
  \/ DiarizationFails
  \/ \E spans \in JobSpans : ReconcileMerge(spans)
  \/ ReconcileDelete
  \/ ReconcileDeleteFails
  \/ \E ok \in BOOLEAN : ReconcileInsert(ok)
  \/ ReconcileReturns
  \/ \E outcome \in {"unavailable", "ok", "failed"} : Summarize(outcome)
  \/ updateMeetingStatus
  \/ \E ok \in BOOLEAN, results \in BatchResponses : TranscribeDone(ok, results)
  \/ UpdateTranscriptSegmentsBegin
  \/ \E ok \in BOOLEAN : BatchDelete(ok)
  \/ \E ok \in BOOLEAN : BatchInsert(ok)

SpecPostProcess == InitPostProcess /\ [][NextPostProcess]_vars

\* ---------------------------------------------- extractName on its own
\* Calls of extractName (name-extractor.ts) on transcripts made of a few words.

\* everything a call of extractName leaves alone
notExtraction ==
  << envVars, requestVars, streamVars, reconcileVars, jobVars, nextSid, googleSessions,
     streams, restartTimers, deepgramSessions, sessionObjs, clientSessions, connected,
     pendingStart, pendingStop, clientEvents, uncaught, speakerMappingStore, nextMapId,
     segments, pendingSaves, pendingEnroll, numEvents, handled, validation >>

\* extractName, the debug object: what each of the three methods found (null is
\* the empty text)
extractDebug(normalized) ==
  [spelledName |-> extractSpelledName(normalized),
   natoName |-> extractNatoPhoneticName(normalized),
   phoneticName |-> extractPhoneticName(normalized)]

\* one call of extractName (the first one of the run is the one recorded)
ExtractName(transcript) ==
  /\ ~extraction.returned
  /\ extraction' = [input |-> transcript, returned |-> TRUE,
                    result |-> extractName(transcript),
                    debug |-> extractDebug(toLowerCase(trim(transcript)))]
  /\ UNCHANGED notExtraction

\* words of the transcripts: letter pronunciations, code words of the phonetic
\* table (one with a capital and a comma), a property name of Object.prototype, a
\* leading filler, a lone comma and a number
Vocabulary ==
  { << "j", "a", "y" >>, << "o", "h" >>, << "a", "l", "p", "h", "a" >>,
    << "B", "r", "a", "v", "o", "," >>, << "b", "o", "b" >>,
    << "c", "o", "n", "s", "t", "r", "u", "c", "t", "o", "r" >>,
    << "i", "'", "m" >>, << "," >>, << "4", "2" >> }

\* words of the longer transcripts, where two runs of code words can be equally long
NatoVocabulary ==
  { << "a", "l", "p", "h", "a" >>, << "B", "r", "a", "v", "o", "," >>, << "4", "2" >> }

\* the transcripts of n words of V, one space between the words
RECURSIVE transcriptsOf(_, _)
transcriptsOf(V, n) ==
  IF n = 0 THEN {<< >>}
  ELSE IF n = 1 THEN V
  ELSE {w \o << " " >> \o t : w \in V, t \in transcriptsOf(V, n - 1)}

ExtractInputs ==
  UNION {transcriptsOf(Vocabulary, n) : n \in 0 .. MaxTokens}
    \cup transcriptsOf(NatoVocabulary, MaxTokens + 2)

NextExtract == \E transcript \in ExtractInputs : ExtractName(transcript)

SpecExtract == Init /\ [][NextExtract]_vars

\* ---------------------------------------------- isValidName on its own
\* Calls of isValidName (name-extractor.ts) on short names and on names around
\* the length limit.

\* everything a call of isValidName leaves alone
notValidation ==
  << envVars, requestVars, streamVars, reconcileVars, jobVars, nextSid, googleSessions,
     streams, restartTimers, deepgramSessions, sessionObjs, clientSessions, connected,
     pendingStart, pendingStop, clientEvents, uncaught, speakerMappingStore, nextMapId,
     segments, pendingSaves, pendingEnroll, numEvents, handled, extraction >>

\* one call of isValidName (the first one of the run is the one recorded)
ValidateName(name) ==
  /\ ~validation.returned
  /\ validation' = [name |-> name, returned |-> TRUE, result |-> isValidName(name)]
  /\ UNCHANGED notValidation

\* characters of the names: letters, the characters the pattern names, whitespace
\* other than the space, and a digit
NameChars == {"a", "Z", " ", "'", "-", "\t", "\n", "3"}

\* the names of n characters
RECURSIVE namesOf(_)
namesOf(n) == IF n = 0 THEN {<< >>} ELSE {<< c >> \o t : c \in NameChars, t \in namesOf(n - 1)}

\* n times the letter a
RECURSIVE letters(_)
letters(n) == IF n = 0 THEN << >> ELSE << "a" >> \o letters(n - 1)

\* names of NameLimit and of NameLimit + 1 characters
LongNames ==
  {letters(NameLimit - 1) \o << c >> : c \in NameChars}
    \cup {letters(NameLimit) \o << c >> : c \in NameChars}

ValidateInputs == UNION {namesOf(n) : n \in 0 .. MaxNameLen} \cup LongNames

NextValidate == \E name \in ValidateInputs : ValidateName(name)

SpecValidate == Init /\ [][NextValidate]_vars

\* ------------------------------------- a second start on one connection
\* The gateway when a client sends startTranscription or startEnrollment again:
\* one session more than in the other specifications, and the results that the
\* sessions receive.

SecondStartBegin(c, meetingId, mode) == StartSessionUpTo(c, meetingId, mode, MaxSessions + 1)

NextSecondStart ==
  \/ \E c \in Conns, m \in Meetings, mode \in Modes : SecondStartBegin(c, m, mode)
  \/ \E p \in pendingStart, ok \in BOOLEAN : StartSessionResume(p, ok)
  \/ \E sid \in Sids : DeepgramOpen(sid)
  \/ \E st \in StreamIds, data \in GooglePayloads : GoogleData(st, data)
  \/ \E sid \in Sids, data \in DeepgramPayloads : DeepgramTranscript(sid, data)
  \/ \E row \in pendingSaves : SaveSegmentDone(row)
  \/ \E c \in Conns : StopTranscriptionBegin(c)
  \/ \E p \in pendingStop : StopTranscriptionFinish(p)
  \/ \E c \in Conns : handleDisconnect(c)

SpecSecondStart == Init /\ [][NextSecondStart]_vars

\* ------------------------------------------------------------- properties

\* C1: while a restart of a Google session is pending (restartStream has cleared
\* isActive and the replacement stream is not created yet), every writeAudio
\* returns false and writes no frame to any stream.
C1_NoWriteWhileRestarting ==
  (lastWrite.called /\ lastWrite.provider = "google" /\ lastWrite.restarting)
    => (lastWrite.ret = "false" /\ ~lastWrite.wrote)

\* A frame arrived for a registered session in the restart window and was refused.
C1_Witness ==
  /\ lastWrite.called /\ lastWrite.provider = "google"
  /\ lastWrite.restarting /\ lastWrite.known
  /\ lastWrite.ret = "false" /\ ~lastWrite.wrote

\* C2: once a restart has opened the replacement stream, and until that stream is
\* ended, fails or the next restart begins, writeAudio returns true for every
\* frame whose write does not fail.
C2_WriteTrueAfterRestart ==
  ( /\ lastWrite.called /\ lastWrite.provider = "google" /\ lastWrite.known
    /\ lastWrite.restartCount > 0 /\ ~lastWrite.restarting
    /\ lastWrite.streamOpen
    /\ lastWrite.outcome \notin {"writeAfter", "other"} )
    => lastWrite.ret = "true"

C4_WriteAudioTotal ==
  lastWrite.called =>
    /\ lastWrite.ret \in {"true", "false"}
    /\ "writeAudio" \notin uncaught
    /\ ( \/ ~lastWrite.known \/ ~lastWrite.hadStream \/ ~lastWrite.wasActive
         \/ lastWrite.unwritable \/ lastWrite.outcome \in {"writeAfter", "other"} )
         => (lastWrite.ret = "false" /\ ~lastWrite.wrote)

\* The write of a frame failed inside the provider stream and writeAudio returned false.
C4_Witness ==
  /\ lastWrite.called
  /\ lastWrite.outcome \in {"writeAfter", "other"}
  /\ lastWrite.ret = "false"

\* C5: a provider error that signals a duration or timeout condition on a
\* registered session is never forwarded to the client and starts a restart.
C5_TimeoutRestartsSilently ==
  (lastError.n > 0 /\ lastError.known /\ lastError.timeout)
    => (~lastError.forwarded /\ lastError.restarted)

\* C6: a provider error that signals no timeout, on a session with its listeners
\* attached, is forwarded to the client as an error event and changes neither the
\* provider session nor the client session; and every stop request leaves the
\* session unregistered with its stream ended.
C6_HardErrorOnlyForwarded ==
  [][ /\ (lastError'.n # lastError.n /\ ~lastError'.timeout /\ lastError'.heard) =>
           /\ googleSessions' = googleSessions
           /\ deepgramSessions' = deepgramSessions
           /\ restartTimers' = restartTimers
           /\ sessionObjs' = sessionObjs
           /\ clientSessions' = clientSessions
           /\ Ev("error", "hard") \in clientEvents'[sessionObjs[lastError'.sid].socketId]
      /\ \A p \in pendingStop' \ pendingStop :
           /\ ~googleSessions'[p.sid].registered
           /\ ~googleSessions'[p.sid].isActive
           /\ googleSessions'[p.sid].recognizeStream # 0
                => streams'[googleSessions'[p.sid].recognizeStream].writableEnded
           /\ ~deepgramSessions'[p.sid].registered
           /\ deepgramSessions'[p.sid].connection # "none"
                => deepgramSessions'[p.sid].finishCalled ]_vars

\* A hard error was forwarded for a session, and a later stop request closed it.
C6_Witness ==
  /\ lastError.n > 0 /\ ~lastError.timeout /\ lastError.heard
  /\ Ev("error", "hard") \in clientEvents[sessionObjs[lastError.sid].socketId]
  /\ \E p \in pendingStop : p.sid = lastError.sid

\* C7: no open stream of an active Google session reaches the age of the
\* provider's limit: a restart begins before.
C7_RestartBeforeLimit ==
  \A sid \in Sids :
    LET s == googleSessions[sid] IN
    ( /\ s.registered /\ s.isActive /\ s.recognizeStream # 0
      /\ ~streams[s.recognizeStream].finished
      /\ ~streams[s.recognizeStream].writableEnded
      /\ ~streams[s.recognizeStream].destroyed )
      => elapsedTime(s) < GoogleStreamLimit

C9_OnlyFinalPersisted ==
  \A i \in DOMAIN segments :
    /\ segments[i].isFinal
    /\ \E h \in handled :
         h.n = segments[i].id /\ h.result.isFinal /\ h.mode = "transcription"

\* A transcription session received an interim result with text and has a persisted segment.
C9_Witness ==
  /\ Len(segments) >= 1
  /\ \E h \in handled :
       /\ h.mode = "transcription" /\ ~h.result.isFinal
       /\ trim(h.result.transcript) # << >>

\* C10: in enrollment mode, once the handler of a FINAL result for an unmapped
\* tag has finished, speakerEnrolled was emitted for it if and only if the name
\* extracted from its text is valid; no other result emits speakerEnrolled.
C10_EnrollIffValid ==
  \A h \in handled :
    LET enrolled == \E e \in clientEvents[h.conn] :
                      e.type = "speakerEnrolled" /\ e.n = h.n
    IN IF h.mode = "enrollment" /\ h.result.isFinal /\ h.speakerName = NoName
         THEN (\A p \in pendingEnroll : p.n # h.n)
                => (enrolled <=> isValidName(extractName(h.result.transcript).name))
         ELSE ~enrolled

\* C11 (as stated): when an enrollment name fails validation, no error event is
\* emitted to the client, neither for a name extracted from an utterance nor for
\* a name provided in enrollSpeaker.
C11_InvalidNameSilent ==
  /\ (lastRequest.n > 0 /\ lastRequest.name # << >> /\ ~isValidName(lastRequest.name))
       => \A e \in clientEvents[lastRequest.conn] :
            ~(e.type = "error" /\ e.n = lastRequest.n /\ e.info = "invalid")
  /\ \A h \in handled :
       ( /\ h.mode = "enrollment" /\ h.result.isFinal /\ h.speakerName = NoName
         /\ ~isValidName(extractName(h.result.transcript).name) )
         => \A e \in clientEvents[h.conn] : ~(e.type = "error" /\ e.n = h.n)

\* C11 (amended): when an enrollment name fails validation, no SpeakerMapping is
\* created or changed and no save is started; for a name extracted from an
\* utterance no error event is emitted, and for a name provided in enrollSpeaker
\* exactly one error event is emitted to the client.
C11_InvalidNameRejected ==
  [][ /\ (lastRequest'.n # lastRequest.n /\ ~isValidName(lastRequest'.name)) =>
           /\ speakerMappingStore' = speakerMappingStore
           /\ pendingManual' = pendingManual
           /\ sessionObjs' = sessionObjs
           /\ \E e \in clientEvents'[lastRequest'.conn] :
                /\ e.type = "error" /\ e.n = lastRequest'.n
                /\ e.info = IF lastRequest'.name = << >> THEN "required" ELSE "invalid"
                /\ clientEvents'[lastRequest'.conn]
                     = clientEvents[lastRequest'.conn] \cup {e}
      /\ \A h \in handled' \ handled :
           ( /\ h.mode = "enrollment" /\ h.result.isFinal /\ h.speakerName = NoName
             /\ ~isValidName(extractName(h.result.transcript).name) ) =>
             /\ speakerMappingStore' = speakerMappingStore
             /\ pendingEnroll' = pendingEnroll
             /\ sessionObjs' = sessionObjs
             /\ \A e \in clientEvents'[h.conn] \ clientEvents[h.conn] :
                  e.type # "error" ]_vars

\* Both paths were taken with the name "42": an utterance and an enrollSpeaker
\* request, the latter answered with the error event.
C11_Witness ==
  /\ lastRequest.n > 0 /\ lastRequest.name = << "4", "2" >>
  /\ \E e \in clientEvents[lastRequest.conn] : e.type = "error" /\ e.info = "invalid"
  /\ \E h \in handled :
       /\ h.mode = "enrollment" /\ h.result.isFinal /\ h.speakerName = NoName
       /\ h.result.transcript = << "4", "2" >>
  /\ speakerMappingStore = {}

\* C12: the SpeakerMapping store holds at most one mapping per (meetingId, speakerTag).
C12_UniqueMapping ==
  \A r1, r2 \in speakerMappingStore :
    (r1.meetingId = r2.meetingId /\ r1.speakerTag = r2.speakerTag) => r1 = r2

\* Two saves for one key raced, the later one was refused, and the store holds the mapping.
C12_Witness ==
  /\ lastSave.n > 0 /\ lastSave.concurrent /\ ~lastSave.ok
  /\ speakerMappingStore # {}

\* C13: a saveSpeakerMapping call that ran concurrently with another call for the
\* same (meetingId, speakerTag) completes without error, and when it completes the
\* store holds its name.
C13_ConcurrentSavesSucceed ==
  (lastSave.n > 0 /\ lastSave.concurrent) => (lastSave.ok /\ lastSave.stored)

\* C14: once a client has disconnected and its start request has run to its end,
\* the connection has no client session and every provider session created for
\* it is destroyed: absent from the registry, inactive, without listeners, its
\* stream ended.
C14_DisconnectDestroysAll ==
  \A c \in Conns :
    (~connected[c] /\ \A p \in pendingStart : p.conn # c) =>
      /\ clientSessions[c] = 0
      /\ \A sid \in Sids :
           (sessionObjs[sid].exists /\ sessionObjs[sid].socketId = c) =>
             /\ ~googleSessions[sid].registered
             /\ ~googleSessions[sid].isActive
             /\ ~googleSessions[sid].listeners
             /\ googleSessions[sid].recognizeStream # 0
                  => streams[googleSessions[sid].recognizeStream].writableEnded
             /\ ~deepgramSessions[sid].registered
             /\ ~deepgramSessions[sid].listeners

\* C15: a start request creates a Deepgram session whenever Deepgram is
\* available, a Google session only when Deepgram is unavailable and Google is
\* available, and with neither available it only emits an error: no provider
\* session and no client session is created.
C15_ProviderPreference ==
  [][ /\ \A p \in pendingStart' \ pendingStart :
           /\ deepgramAvailable \/ googleAvailable
           /\ p.provider = IF deepgramAvailable THEN "deepgram" ELSE "google"
           /\ deepgramSessions'[p.sid].created = deepgramAvailable
           /\ googleSessions'[p.sid].created = ~deepgramAvailable
      /\ (~deepgramAvailable /\ ~googleAvailable) =>
           /\ pendingStart' = {}
           /\ \A sid \in Sids : /\ ~googleSessions'[sid].created
                                /\ ~deepgramSessions'[sid].created
                                /\ ~sessionObjs'[sid].exists
           /\ \A c \in Conns :
                /\ clientSessions'[c] = 0
                /\ clientEvents'[c] \in
                     {clientEvents[c], clientEvents[c] \cup {Ev("error", "unavailable")}}
    ]_vars

\* Both providers are available and the session of a start request is a Deepgram session.
C15_Witness ==
  /\ deepgramAvailable /\ googleAvailable
  /\ \E sid \in Sids :
       /\ deepgramSessions[sid].created /\ ~googleSessions[sid].created
       /\ sessionObjs[sid].exists /\ sessionObjs[sid].provider = "deepgram"

\* C16: the list the reconciler writes back has no two consecutive segments with
\* the same speakerTag, and merging that list again gives the same list; the
\* rows it has stored when it is done are that list.
C16_NoAdjacentSameTag ==
  Reconciled =>
    /\ \A i \in 1 .. Len(recon.merged) - 1 :
         recon.merged[i].speakerTag # recon.merged[i + 1].speakerTag
    /\ mergeSegments(recon.merged) = recon.merged
    /\ recon.phase = "done" =>
         LET written == SelectSeq(segments, LAMBDA row : row.meetingId = recon.meetingId)
         IN /\ [i \in DOMAIN written |-> MergedOf(written[i])] = recon.merged
            /\ \A i \in 1 .. Len(written) - 1 :
                 written[i].speakerTag # written[i + 1].speakerTag

\* A reconciliation is done that merged segments and still wrote several.
C16_Witness ==
  /\ recon.phase = "done"
  /\ Len(recon.merged) >= 2
  /\ Len(recon.merged) < Len(recon.pre)

\* C17: each run of adjacent segments with one tag becomes one merged segment:
\* its text is the run's texts in order joined by single spaces, its startTime
\* the first segment's, its endTime the last segment's, its confidence the
\* least confidence of the run.
C17_MergedRun ==
  Reconciled =>
    /\ Len(recon.merged) = Cardinality(RunStarts(recon.tagged))
    /\ \A i \in RunStarts(recon.tagged) :
         LET j == RunEnd(recon.tagged, i)
             m == recon.merged[RunIndex(recon.tagged, i)]
         IN /\ m.speakerTag = recon.tagged[i].speakerTag
            /\ m.transcript = joinTranscripts(recon.tagged, i, j)
            /\ m.startTime = recon.tagged[i].startTime
            /\ m.endTime = recon.tagged[j].endTime
            /\ \A k \in i .. j : m.confidence <= recon.tagged[k].confidence
            /\ \E k \in i .. j : m.confidence = recon.tagged[k].confidence

\* A run of several segments was merged whose least confidence is not the first's,
\* next to a run of another tag.
C17_Witness ==
  /\ Reconciled
  /\ \E i \in RunStarts(recon.tagged) :
       /\ RunEnd(recon.tagged, i) > i
       /\ recon.tagged[i].confidence = 90
       /\ recon.tagged[RunEnd(recon.tagged, i)].confidence = 40
       /\ recon.tagged[i].endTime < recon.tagged[RunEnd(recon.tagged, i)].endTime
  /\ Len(recon.merged) >= 2

\* C18: a segment whose midpoint lies in some span gets the tag of the first
\* span, in the order the spans came in, whose closed interval contains the
\* midpoint; the tag of a label is its 1-based position among the sorted
\* distinct labels.
C18_FirstSpanTag ==
  Reconciled =>
    /\ Len(recon.tagged) = Len(recon.pre)
    /\ \A i \in DOMAIN recon.pre :
         LET hits == SpansAtMidpoint(recon.spans, recon.pre[i])
         IN hits # {} =>
              LET first == CHOOSE j \in hits : \A k \in hits : j <= k
              IN recon.tagged[i] =
                   [recon.pre[i] EXCEPT !.speakerTag =
                      LabelRank(recon.spans, recon.spans[first].speaker)]

\* The midpoint of a segment is the end of one span and the start of the next,
\* the two spans have different labels, and the first of them is not the first
\* label in sorted order.
C18_Witness ==
  /\ Reconciled
  /\ \E i \in DOMAIN recon.pre :
       /\ SpansAtMidpoint(recon.spans, recon.pre[i]) = {1, 2}
       /\ recon.spans[1].speaker # recon.spans[2].speaker
       /\ 2 * recon.spans[1].end = recon.pre[i].startTime + recon.pre[i].endTime
       /\ LabelRank(recon.spans, recon.spans[1].speaker) = 2
       /\ recon.tagged[i].speakerTag = 2

\* C19: a segment whose midpoint lies in no span gets tag 1, whatever the labels
\* of the spans are.
C19_DefaultTagOne ==
  Reconciled =>
    \A i \in DOMAIN recon.pre :
      SpansAtMidpoint(recon.spans, recon.pre[i]) = {} => recon.tagged[i].speakerTag = 1

\* C20: the rows a reader of the meeting gets while the reconciler replaces
\* them, and the rows a failed insert leaves, are the list read before the
\* reconciliation or the merged list.
C20_AtomicReplace ==
  /\ (lastRead.n > 0 /\ lastRead.phase \in {"deleting", "inserting", "done", "failed"}) =>
       ContentSet(lastRead.rows) \in {ContentSet(recon.pre), ContentSet(recon.merged)}
  /\ recon.phase = "failed" =>
       ContentSet(SelectSeq(segments, LAMBDA row : row.meetingId = recon.meetingId))
         \in {ContentSet(recon.pre), ContentSet(recon.merged)}

\* the tags of the words of a normalized event
WordTags(result) == [i \in DOMAIN result.words |-> result.words[i].speakerTag]

\* C26: the speakerTag of a normalized event with words is the tag with the
\* most words, and among several tags with the most words the lowest one.
C26_DominantLowestOnTie ==
  \A h \in handled :
    h.result.words # << >> =>
      LET tags == WordTags(h.result)
          most == {t \in {tags[i] : i \in DOMAIN tags} :
                     \A i \in DOMAIN tags : countTag(tags, tags[i]) <= countTag(tags, t)}
      IN \A t \in most : h.result.speakerTag <= t

\* C27: the startTime of a normalized event is the start time of its first
\* word, also when that is 0, and its endTime the end time of its last word;
\* without words both are 0.
C27_FirstStartLastEnd ==
  \A h \in handled :
    IF h.result.words = << >>
      THEN h.result.startTime = 0 /\ h.result.endTime = 0
      ELSE /\ h.result.startTime = h.result.words[1].startTime
           /\ h.result.endTime = h.result.words[Len(h.result.words)].endTime

\* C28: every stored segment has startTime < endTime.
C28_StartBeforeEnd ==
  \A i \in DOMAIN segments : segments[i].startTime < segments[i].endTime

\* C21: when a delete or an insert of the reconciler has failed, the job ends
\* with the meeting status failed, and the meeting's segments are the list it
\* had before or the merged list, not a part of it.
C21_PersistFailureAborts ==
  (job.phase = "finished" /\ job.path = "reconcile" /\ job.failure = "persist") =>
    /\ meetingStatus = "failed"
    /\ ContentSet(RowsOf(job.meetingId))
         \in {ContentSet(job.before), ContentSet(recon.merged)}

C24_ReconcileOnce ==
  /\ job.path = "reconcile" => (Len(job.before) > 0 /\ job.batch = << >>)
  /\ job.path = "wholeFile" => (Len(job.before) = 0 /\ recon = NoRecon)
  /\ job.rewrites <= 1

\* C25: mergeConsecutiveSpeakerSegments gives the merged segments that the merge
\* loop of the reconciler gives for the same list: texts, times and confidence.
C25_SameMergeRule ==
  job.path = "wholeFile" =>
    [i \in DOMAIN job.merged |-> MergedOf(job.merged[i])] =
      (IF job.phase \in {"transcribing", "mappings"} THEN << >>
       ELSE mergeSegments(job.batch))

\* ---- claims about extractName (SpecExtract)

\* whether the (cleaned) word is a key of the phonetic table
InPhoneticTable(word) == Str(lettersOnly(word)) \in DOMAIN PHONETIC_ALPHABET

\* the positions a..b of ws are a maximal run of words of the phonetic table
IsTableRun(ws, a, b) ==
  /\ a <= b
  /\ \A i \in a .. b : InPhoneticTable(ws[i])
  /\ a = 1 \/ ~InPhoneticTable(ws[a - 1])
  /\ b = Len(ws) \/ ~InPhoneticTable(ws[b + 1])

\* the letters of the table for the words a..b of ws
RECURSIVE TableLetters(_, _, _)
TableLetters(ws, a, b) ==
  IF a > b THEN << >>
  ELSE << PHONETIC_ALPHABET[Str(lettersOnly(ws[a]))] >> \o TableLetters(ws, a + 1, b)

\* the letters of the longest run of at least 2 table words, the earliest on a
\* tie; the empty text when there is none
LongestTableRun(ws) ==
  LET runs == {r \in (DOMAIN ws) \X (DOMAIN ws) :
                 IsTableRun(ws, r[1], r[2]) /\ r[2] - r[1] + 1 >= 2}
  IN IF runs = {} THEN << >>
     ELSE LET best == CHOOSE r \in runs :
                        \A q \in runs :
                          \/ r[2] - r[1] > q[2] - q[1]
                          \/ r[2] - r[1] = q[2] - q[1] /\ r[1] <= q[1]
          IN TableLetters(ws, best[1], best[2])

\* C29: extractName returns, and what it returns is the result of the first method
\* that found something, in the order spelled (high), NATO (high), phonetic
\* (medium), cleaned transcript (low, phonetic); a later method's result is
\* returned only when every earlier method found nothing.
C29_FirstSuccessWins ==
  extraction.returned =>
    LET d == extraction.debug
        r == extraction.result
    IN /\ d.spelledName # << >> =>
            r = [name |-> capitalizeFirst(d.spelledName), confidence |-> "high",
                 method |-> "spelled"]
       /\ d.spelledName = << >> /\ d.natoName # << >> =>
            r = [name |-> capitalizeFirst(d.natoName), confidence |-> "high",
                 method |-> "nato"]
       /\ d.spelledName = << >> /\ d.natoName = << >> /\ d.phoneticName # << >> =>
            r = [name |-> capitalizeFirst(d.phoneticName), confidence |-> "medium",
                 method |-> "phonetic"]
       /\ d.spelledName = << >> /\ d.natoName = << >> /\ d.phoneticName = << >> =>
            r = [name |-> capitalizeFirst(cleanTranscript(trim(extraction.input))),
                 confidence |-> "low", method |-> "phonetic"]
       /\ << r.confidence, r.method >> \in
            {<< "high", "spelled" >>, << "high", "nato" >>, << "medium", "phonetic" >>,
             << "low", "phonetic" >>}

\* a call where the NATO method and the phonetic method both found something and
\* the spelled method found nothing: the NATO result is the one returned
C29_Witness ==
  /\ extraction.returned
  /\ extraction.debug.spelledName = << >>
  /\ extraction.debug.natoName # << >>
  /\ extraction.debug.phoneticName # << >>
  /\ extraction.result.method = "nato"

\* C30: the NATO method returns the letters of the longest contiguous run of words
\* found in the phonetic table when that run has at least 2 words (the earliest on
\* a tie) and nothing otherwise.
C30_LongestTableRun ==
  extraction.returned =>
    extraction.debug.natoName = LongestTableRun(split(toLowerCase(trim(extraction.input))))

\* ---- claims about isValidName (SpecValidate)

\* C31: isValidName(s) is true exactly when s has between 1 and 50 characters,
\* contains at least one letter, and every character is a letter, a space, an
\* apostrophe or a hyphen.
C31_ValidNameExactly ==
  validation.returned =>
    LET s == validation.name IN
    validation.result <=>
      /\ Len(s) >= 1
      /\ Len(s) <= 50
      /\ \E i \in DOMAIN s : s[i] \in LowerLetters \cup UpperLetters
      /\ \A i \in DOMAIN s : s[i] \in LowerLetters \cup UpperLetters \cup {" ", "'", "-"}

\* ---- claims about restarts and replaced streams (SpecStream)

\* the recognize streams created for the session, and those of them that are open
StreamsOf(st, sid) == {i \in StreamIds : st[i].session = sid}

OpenStreamsOf(st, sid) ==
  {i \in StreamsOf(st, sid) : ~st[i].writableEnded /\ ~st[i].destroyed}

\* C32: restarts of one session are serialized. While a restart is pending (its
\* timer has not fired), no step other than the timer changes restartCount, arms
\* another timer or creates a stream; a restart adds exactly one to restartCount
\* and arms one timer; the timer of a registered session creates exactly one
\* stream; and a session never has two open streams.
C32_RestartsSerialized ==
  [][ \A sid \in Sids :
        LET s == googleSessions[sid]
            t == googleSessions'[sid]
        IN /\ restartTimers[sid] > 0 =>
                /\ t.restartCount = s.restartCount
                /\ restartTimers'[sid] <= restartTimers[sid]
                /\ restartTimers'[sid] = restartTimers[sid]
                     => StreamsOf(streams', sid) = StreamsOf(streams, sid)
           /\ t.restartCount \in {s.restartCount, s.restartCount + 1}
           /\ t.restartCount = s.restartCount + 1 =>
                /\ restartTimers[sid] = 0 /\ restartTimers'[sid] = 1
                /\ OpenStreamsOf(streams', sid) = {}
           /\ (restartTimers'[sid] < restartTimers[sid] /\ s.registered) =>
                Cardinality(StreamsOf(streams', sid))
                  = Cardinality(StreamsOf(streams, sid)) + 1
           /\ Cardinality(StreamsOf(streams', sid)) <= 1 + t.restartCount
           /\ Cardinality(OpenStreamsOf(streams', sid)) <= 1 ]_vars

\* a frame arrived while the restart was pending and was refused, and the timer
\* has then created the one replacement stream
C32_Witness ==
  \E sid \in Sids :
    /\ googleSessions[sid].restartCount = 1
    /\ restartTimers[sid] = 0
    /\ Cardinality(StreamsOf(streams, sid)) = 2
    /\ Cardinality(OpenStreamsOf(streams, sid)) = 1
    /\ lastWrite.called /\ lastWrite.sid = sid /\ lastWrite.restarting
    /\ lastWrite.ret = "false"

\* C33: an end event or an error of a stream that a restart has replaced, delivered
\* after the replacement stream was opened, leaves the session as it is: isActive
\* is not cleared and no restart of the replacement begins.
C33_StaleCallbacksIgnored ==
  [][ \A st \in StreamIds :
        LET sid == streams[st].session IN
        ( /\ sid # 0
          /\ ~streams[st].finished /\ streams'[st].finished
          /\ googleSessions[sid].recognizeStream \notin {0, st} ) =>
          /\ googleSessions'[sid].isActive = googleSessions[sid].isActive
          /\ googleSessions'[sid].restartCount = googleSessions[sid].restartCount
          /\ restartTimers'[sid] = restartTimers[sid] ]_vars

\* ---- claims about the sessions of one connection

\* the provider session sid was the session of its connection and another session
\* has taken its place in clientSessions
Replaced(sid) ==
  /\ sessionObjs[sid].exists
  /\ clientSessions[sessionObjs[sid].socketId] \notin {0, sid}

\* C34: once a connection that had a session has another one, the earlier provider
\* session is not registered and not streaming any more, and no result of it is
\* handled (no client event, no segment).
C34_OneSessionPerConnection ==
  [][ \A sid \in Sids :
        Replaced(sid)' =>
          /\ ~googleSessions'[sid].registered /\ ~googleSessions'[sid].isActive
          /\ ~deepgramSessions'[sid].registered /\ ~deepgramSessions'[sid].isActive
          /\ ~sessionObjs'[sid].isStreaming
          /\ Replaced(sid) => \A h \in handled' \ handled : h.sid # sid ]_vars

\* C35: when a start request resumes from the speaker-mapping load after its
\* client has disconnected, it finishes with no client session for the connection
\* and with its provider session out of the registry.
C35_DisconnectDuringStart ==
  [][ \A p \in pendingStart \ pendingStart' :
        ~connected[p.conn] =>
          /\ clientSessions'[p.conn] = 0
          /\ ~googleSessions'[p.sid].registered
          /\ ~deepgramSessions'[p.sid].registered ]_vars

\* ---- claims about stop, enrollment and start (SpecAggregator)

\* C36: no segment of a session is saved after transcriptionStopped has been
\* emitted for it: a save of handleTranscriptResult never completes after the
\* stop handler has sent the event.
C36_NoSaveAfterStopped ==
  [][ \A row \in pendingSaves \ pendingSaves' :
        \A h \in handled :
          h.n = row.id => Ev("transcriptionStopped", "") \notin clientEvents[h.conn] ]_vars

\* C37: in an enrollment session at most one speakerEnrolled event is emitted for
\* a speaker tag, and the stored mapping of the tag carries the name of that event.
C37_EnrollOncePerTag ==
  \A c \in Conns, tag \in Tags :
    LET enrolled == {e \in clientEvents[c] : e.type = "speakerEnrolled" /\ e.tag = tag}
    IN /\ Cardinality(enrolled) <= 1
       /\ \A e \in enrolled, r \in speakerMappingStore :
            r.speakerTag = tag => r.speakerName = e.name

\* C38: writeAudio of the Google service returns true only for a frame that it
\* wrote to the session's stream; every frame that is not written is reported as
\* false.
C38_TrueOnlyIfWritten ==
  (lastWrite.called /\ lastWrite.provider = "google") =>
    /\ lastWrite.ret = "true" => (lastWrite.wrote /\ lastWrite.stream # 0)
    /\ ~lastWrite.wrote => lastWrite.ret = "false"

\* C39: a provider error is never emitted on a session emitter that has no
\* 'error' listener: an error that arrives for a session whose listeners were
\* removed, or are not attached yet, is dropped and raises nothing.
C39_NoUnheardErrorEmit ==
  "emitError" \notin uncaught

StartedEvents == {Ev("transcriptionStarted", ""), Ev("enrollmentStarted", "")}

\* C40: a started event is emitted to the client only if the provider stream was
\* started for the session; a start whose startStreaming returns no emitter
\* emits an error event and no started event, and keeps neither the client
\* session nor the provider session.
C40_StartedOnlyIfStreaming ==
  [][ \A p \in pendingStart \ pendingStart' :
        LET new == clientEvents'[p.conn] \ clientEvents[p.conn] IN
        ~sessionObjs'[p.sid].isStreaming =>
          /\ new \cap StartedEvents = {}
          /\ \E e \in new : e.type = "error"
          /\ clientSessions'[p.conn] # p.sid
          /\ ~googleSessions'[p.sid].registered
          /\ ~deepgramSessions'[p.sid].registered ]_vars

====
